---- MODULE Spec2Model ----
(***************************************************************************)
(* term-trace: the log aggregation and publication engine.                 *)
(*                                                                         *)
(* Part I  models JSONLSummarizer (summarizer/core.py): the worker thread  *)
(*         that tails the session log, mirrors entries to the sinks and    *)
(*         runs the batch / interval / control triggers.                   *)
(* Part II models GoogleDocsLogger (summarizer/google_docs.py): the        *)
(*         section-structured document and the operations on it.           *)
(***************************************************************************)
EXTENDS Integers, Sequences, FiniteSets, TLC

(***************************************************************************)
(* Bounds of the model.                                                    *)
(***************************************************************************)
\* lines the producer appends in the general engine specification
MaxLines == 3
\* bytes of one log line: bytes 1..LineLen-2 are a proper prefix of the JSON
\* text, byte LineLen-1 completes the JSON text, byte LineLen is the newline
LineLen == 3
\* seconds of wall-clock time the model follows
MaxTime == 3
\* operations on the document the model follows
MaxOps == 4
\* lines the producer appends in the batch specification
BatchLines == 7
\* entries of the batch whose deterministic digest is computed
DigestLen == 6
\* entries of a batch handed to a delegate, and batches handed to it
PromptLen == 2
PromptCalls == 2
\* seconds the model follows a worker that is neither stopped nor killed
LiveTime == 5
\* lines the producer appends while such a worker is followed
LiveLines == 2
\* writes the sessions of the machine make to their destinations
MaxWrites == 4

VARIABLES
    \* ---- JSONLSummarizer ------------------------------------------------
    conf,             \* constructor arguments: batch_size, interval, mode,
                      \* llm_function (present or not), google_logger
    file,             \* the JSONL log: lines, the last one possibly partial
    present,          \* the JSONL log exists
    last_pos,         \* self.last_pos
    buffer,           \* _run's local `buffer` (line numbers of entries)
    last_batch_time,  \* _run's local `last_batch_time`
    now,              \* time.time(), in seconds since construction
    running,          \* self._running
    thread,           \* the worker thread: "alive", "exited", "crashed"
    hdr,              \* self._full_log_heading_written
    md,               \* the markdown summary file, as blocks
    gdoc,             \* the calls made on self.google_logger, with outcome
    \* ---- history of the worker, for stating the properties ----------------
    delivered,        \* lines json.loads returned an entry for, in order
    sums,             \* the calls of _summarize_batch on a non-empty batch
    maxRead,          \* the most lines one loop iteration has parsed
    buffered_at,      \* when the oldest entry of the buffer was buffered
    tick_at,          \* when the last completed loop iteration started
    \* ---- GoogleDocsLogger ----------------------------------------------
    doc,              \* the document body: its paragraphs, in order
    logger,           \* "none": no logger constructed; "ready": constructed
    nops,             \* operations performed on the document so far
    nsum,             \* digests published so far (they are numbered)
    nent,             \* entries handed to write_entries so far
    mirrored,         \* entries write_entries has inserted and neither the
                      \* constructor nor an outside edit has deleted
    appended,         \* digests _append_section_content has inserted
    lastOp,           \* the last operation, with the document before it
    \* ---- the sessions of the machine (logger/session_manager.py) ---------
    sessions,         \* per session: its workspace and whether it runs
    dests             \* per destination: the writes made to it, in order

engineVars == <<conf, file, present, last_pos, buffer, last_batch_time, now,
                running, thread, hdr, md, gdoc, delivered, sums, maxRead, buffered_at,
                tick_at>>

docVars == <<doc, logger, nops, nsum, nent, mirrored, appended, lastOp>>

wsVars == <<sessions, dests>>

vars == <<engineVars, docVars, wsVars>>

(***************************************************************************)
(* The log file.  A line is [k |-> kind, b |-> bytes written so far].      *)
(* kind "bad" is a complete line that is not JSON.                         *)
(***************************************************************************)
JsonKinds == {"command", "summarize"}
LineKinds == JsonKinds \cup {"bad"}

FileSize(f) ==
    IF f = <<>> THEN 0 ELSE (Len(f) - 1) * LineLen + f[Len(f)].b

LastComplete(f) == IF f = <<>> THEN TRUE ELSE f[Len(f)].b = LineLen

\* write_jsonl_entry: open(..., "a"), which creates the log when it does not
\* exist, and write json.dumps(entry) + "\n".
\* The bytes reach the file in one piece (b = LineLen) or, for a write the
\* buffered writer splits, in several.
AppendLine(kinds, pieces, maxLines) ==
    /\ Len(file) < maxLines
    /\ LastComplete(file)
    /\ \E k \in kinds, b \in pieces :
          /\ k = "bad" => b = LineLen
          /\ file' = Append(file, [k |-> k, b |-> b])
    /\ present' = TRUE
    /\ UNCHANGED <<conf, last_pos, buffer, last_batch_time, now, running,
                   thread, hdr, md, gdoc, delivered, sums, maxRead,
                   buffered_at, tick_at, docVars, wsVars>>

\* str.lstrip() on a sequence of characters
RECURSIVE Lstrip(_)
Lstrip(t) == IF t # <<>> /\ Head(t) = " " THEN Lstrip(Tail(t)) ELSE t

\* the entry write_jsonl_entry makes of a command line, lines 59-62 with
\* create_note_entry and create_command_entry
EntryOf(command) ==
    IF command # <<>> /\ Head(command) = "#"
    THEN [type |-> "note", text |-> Lstrip(Tail(command))]
    ELSE [type |-> "command", command |-> command]

\* command lines the shell hook hands over: empty, a note, a command, a
\* command whose "#" is not its first character
Commands == {<<>>, <<"#", " ", "n">>, <<"l", "s">>, <<" ", "#">>}

\* a write_jsonl_entry that opens the log with mode "w"
WriteJsonlEntryTruncating(commands, pieces, maxLines) ==
    /\ Len(file) < maxLines
    /\ LastComplete(file)
    /\ \E command \in commands, b \in pieces :
          file' = <<[k |-> EntryOf(command).type, b |-> b,
                     command |-> command, entry |-> EntryOf(command)]>>
    /\ present' = TRUE
    /\ UNCHANGED <<conf, last_pos, buffer, last_batch_time, now, running,
                   thread, hdr, md, gdoc, delivered, sums, maxRead,
                   buffered_at, tick_at, docVars, wsVars>>

\* write_jsonl_entry(log_path, timestamp, command, output, exit_code),
\* lines 52-66: the entry is chosen by the command's first character and
\* its JSON text and a newline are written to the log opened with mode "a"
WriteJsonlEntry(commands, pieces, maxLines) ==
    /\ Len(file) < maxLines
    /\ LastComplete(file)
    /\ \E command \in commands, b \in pieces :
          file' = Append(file, [k |-> EntryOf(command).type, b |-> b,
                                command |-> command,
                                entry |-> EntryOf(command)])
    /\ present' = TRUE
    /\ UNCHANGED <<conf, last_pos, buffer, last_batch_time, now, running,
                   thread, hdr, md, gdoc, delivered, sums, maxRead,
                   buffered_at, tick_at, docVars, wsVars>>

\* the rest of a split write arrives
ContinueLine ==
    /\ ~LastComplete(file)
    /\ \E b \in (file[Len(file)].b + 1)..LineLen :
          file' = [file EXCEPT ![Len(file)].b = b]
    /\ UNCHANGED <<conf, present, last_pos, buffer, last_batch_time, now,
                   running, thread, hdr, md, gdoc, delivered, sums, maxRead,
                   buffered_at, tick_at, docVars, wsVars>>

(***************************************************************************)
(* f.seek(self.last_pos); for line in f: the chunks the iteration yields.  *)
(* A chunk is [i |-> line number, from |-> first byte offset in the line,  *)
(* to |-> bytes of the line present].  The last chunk may lack its newline.*)
(***************************************************************************)
RECURSIVE ChunksFrom(_, _, _)
ChunksFrom(f, i, off) ==
    IF i > Len(f) THEN <<>>
    ELSE IF off >= f[i].b THEN ChunksFrom(f, i + 1, 0)
    ELSE <<[i |-> i, from |-> off, to |-> f[i].b]>> \o ChunksFrom(f, i + 1, 0)

\* the read without the seek: every poll reads the file from its first byte
ReadChunksNoSeek(f, pos) == ChunksFrom(f, 1, 0)

ReadChunks(f, pos) == ChunksFrom(f, (pos \div LineLen) + 1, pos % LineLen)

\* json.loads(line) returns an entry iff the chunk holds a whole JSON text:
\* it starts at the line's first byte and reaches at least the last byte of
\* the JSON text (the newline itself is optional for json.loads).
Parses(f, c) ==
    /\ f[c.i].k # "bad"
    /\ c.from = 0
    /\ c.to >= LineLen - 1

(***************************************************************************)
(* External failures, drawn afresh for every loop iteration: which of the  *)
(* external calls raise while this iteration runs.                         *)
(*   mdlog : opening the summary file for the full log                     *)
(*   gent  : google_logger.write_entries                                   *)
(*   llm   : llm_function raises                                           *)
(*   api   : the provider call inside llm_function fails (network error,   *)
(*           timeout, HTTP error status)                                   *)
(*   mdsum : opening the summary file for a summary                        *)
(*   gsum  : google_logger.write_summary                                   *)
(***************************************************************************)
\* the calls that raise
Failures ==
    [mdlog : BOOLEAN, gent : BOOLEAN, llm : BOOLEAN, api : {FALSE},
     mdsum : BOOLEAN, gsum : BOOLEAN]

\* the provider call of the delegate fails or not, and so do the writes of
\* the digest
ProviderFailures ==
    [mdlog : {FALSE}, gent : {FALSE}, llm : {FALSE}, api : BOOLEAN,
     mdsum : BOOLEAN, gsum : BOOLEAN]

NoFailure ==
    [mdlog |-> FALSE, gent |-> FALSE, llm |-> FALSE, api |-> FALSE,
     mdsum |-> FALSE, gsum |-> FALSE]

Last(q) == q[Len(q)]

\* the time the history records: the age of buffered entries is followed
\* only in sessions whose time trigger is enabled
Stamp == IF conf.interval > 0 THEN now ELSE 0

(***************************************************************************)
(* The state one loop iteration of _run works on.                          *)
(***************************************************************************)
RunState ==
    [buffer |-> buffer, lbt |-> last_batch_time, hdr |-> hdr, md |-> md,
     gdoc |-> gdoc, delivered |-> delivered, sums |-> sums, newlog |-> <<>>,
     bufAt |-> buffered_at, crashed |-> FALSE, readRaised |-> FALSE]

\* what llm_function(text) gives, line 220.  The delegates start_session
\* builds (GenericChatSummarizer.summarize_text, HuggingFaceSummarizer
\* .summarize) catch a failed provider call and return the error message as
\* their result: "error"; any other callable may raise: "raise".
Delegate(fl) ==
    IF fl.llm THEN "raise" ELSE IF fl.api THEN "error" ELSE "llm"

\* which digest _summarize_batch computes, lines 196-222: "md" the
\* deterministic digest, "llm" the delegate's answer, "error" the error
\* message the delegate returned, "raise" the delegate raised, "none" the
\* function returned before computing one
DigestOf(c, fl) ==
    IF c.mode = "markdown" THEN "md"
    ELSE IF c.mode \in {"remote_llm", "custom"}
         THEN IF ~c.llm THEN "none" ELSE Delegate(fl)
         ELSE "none"

\* _summarize_batch(entries) with entries = the buffer, lines 188-241
SummarizeBatch(st, trig, fl) ==
    IF st.buffer = <<>> THEN st
    ELSE
      LET d == DigestOf(conf, fl)
          s1 == [st EXCEPT
                   !.sums = Append(@, [es |-> st.buffer, trig |-> trig,
                                       digest |-> d, at |-> Stamp,
                                       since |-> st.bufAt,
                                       by |-> IF trig = "control"
                                              THEN Last(st.delivered)
                                              ELSE 0])]
      IN  IF d = "raise" THEN [s1 EXCEPT !.crashed = TRUE]
          ELSE IF d = "none" THEN s1
          ELSE
            LET s2 == [s1 EXCEPT
                         !.md = IF fl.mdsum THEN @
                                ELSE Append(@, [t |-> "summary", es |-> st.buffer,
                                                digest |-> d])]
            IN  IF ~conf.gdoc THEN s2
                ELSE [s2 EXCEPT
                        !.gdoc = Append(@, [op |-> "summary", es |-> st.buffer,
                                            digest |-> d, ok |-> ~fl.gsum])]

\* the buffer cleared only when the pass computed a digest
ClearBufferOnDigest(st) ==
    IF st.crashed \/ Last(st.sums).digest = "none" THEN st
    ELSE [st EXCEPT !.buffer = <<>>, !.lbt = now, !.bufAt = 0]

\* the buffer cleared without the trigger clock being reset
ClearBufferKeepClock(st) ==
    IF st.crashed THEN st ELSE [st EXCEPT !.buffer = <<>>, !.bufAt = 0]

\* the trigger clock reset without the buffer being cleared
ResetClockOnly(st) ==
    IF st.crashed THEN st ELSE [st EXCEPT !.lbt = now]

\* lines 131-132 and 161-162: buffer.clear(); last_batch_time = time.time()
ClearBuffer(st) ==
    IF st.crashed THEN st
    ELSE [st EXCEPT !.buffer = <<>>, !.lbt = now, !.bufAt = 0]

\* the loop body without the `continue` of line 138: a control entry is
\* handled and then mirrored and buffered like any other entry
ProcessLineNoContinue(st, c, fl) ==
    IF st.crashed THEN st
    ELSE IF ~Parses(file, c)
         THEN [st EXCEPT !.crashed = TRUE, !.readRaised = TRUE]
    ELSE
      LET s1 == [st EXCEPT !.delivered = Append(@, c.i)]
          s3 == IF file[c.i].k = "summarize" /\ s1.buffer # <<>>
                THEN LET s2 == SummarizeBatch(s1, "control", fl)
                     IN  IF s2.crashed THEN [s2 EXCEPT !.readRaised = TRUE]
                         ELSE ClearBuffer(s2)
                ELSE s1
      IN  IF s3.crashed THEN s3
          ELSE [s3 EXCEPT !.newlog = Append(@, c.i),
                          !.buffer = Append(@, c.i),
                          !.bufAt = IF s3.buffer = <<>> THEN Stamp ELSE @]

\* the body of `for line in f`, lines 120-142
ProcessLine(st, c, fl) ==
    IF st.crashed THEN st
    ELSE IF ~Parses(file, c)
         THEN [st EXCEPT !.crashed = TRUE, !.readRaised = TRUE]
    ELSE
      LET s1 == [st EXCEPT !.delivered = Append(@, c.i)]
      IN  IF file[c.i].k = "summarize"
          THEN IF s1.buffer # <<>>
               THEN LET s2 == SummarizeBatch(s1, "control", fl)
                    IN  IF s2.crashed THEN [s2 EXCEPT !.readRaised = TRUE]
                        ELSE ClearBuffer(s2)
               ELSE s1
          ELSE [s1 EXCEPT !.newlog = Append(@, c.i), !.buffer = Append(@, c.i),
                          !.bufAt = IF s1.buffer = <<>> THEN Stamp ELSE @]

RECURSIVE ProcessLines(_, _, _)
ProcessLines(st, cs, fl) ==
    IF cs = <<>> THEN st
    ELSE ProcessLines(ProcessLine(st, Head(cs), fl), Tail(cs), fl)

\* the read without the test of line 116: opening a log that does not exist
\* raises FileNotFoundError
PollWithoutTest(st, fl) ==
    IF ~present THEN [st EXCEPT !.crashed = TRUE, !.readRaised = TRUE]
    ELSE ProcessLines(st, ReadChunks(file, last_pos), fl)

\* lines 116-143: the log is read only if it exists
Poll(st, fl) ==
    IF ~present THEN st
    ELSE ProcessLines(st, ReadChunks(file, last_pos), fl)

\* the mirroring that gives up on the document after a failed call
LogEntriesUntilFailure(st, fl) ==
    IF st.crashed \/ st.newlog = <<>> THEN st
    ELSE IF fl.mdlog THEN [st EXCEPT !.crashed = TRUE]
    ELSE
      LET s1 == [st EXCEPT
                   !.md = (IF st.hdr THEN @ ELSE Append(@, [t |-> "fullhdr"]))
                          \o <<[t |-> "log", es |-> st.newlog]>>,
                   !.hdr = TRUE]
      IN  IF ~conf.gdoc \/ \E g \in 1..Len(st.gdoc) : ~st.gdoc[g].ok THEN s1
          ELSE [s1 EXCEPT
                  !.gdoc = Append(@, [op |-> "entries", es |-> st.newlog,
                                      ok |-> ~fl.gent])]

\* _log_entries_to_full_log(new_entries_for_logging), lines 146-148, 166-186
LogEntriesToFullLog(st, fl) ==
    IF st.crashed \/ st.newlog = <<>> THEN st
    ELSE IF fl.mdlog THEN [st EXCEPT !.crashed = TRUE]
    ELSE
      LET s1 == [st EXCEPT
                   !.md = (IF st.hdr THEN @ ELSE Append(@, [t |-> "fullhdr"]))
                          \o <<[t |-> "log", es |-> st.newlog]>>,
                   !.hdr = TRUE]
      IN  IF ~conf.gdoc THEN s1
          ELSE [s1 EXCEPT
                  !.gdoc = Append(@, [op |-> "entries", es |-> st.newlog,
                                      ok |-> ~fl.gent])]

\* the size threshold compared with > instead of >=
TriggerStrict(c, buf, lbt, t) ==
    IF c.batch_size > 0 /\ Len(buf) > c.batch_size THEN "size"
    ELSE IF c.interval > 0 /\ buf # <<>> /\ t - lbt >= c.interval THEN "time"
    ELSE "none"

\* the time trigger without its clock: it fires on any non-empty buffer
TriggerNoClock(c, buf, lbt, t) ==
    IF c.batch_size > 0 /\ Len(buf) >= c.batch_size THEN "size"
    ELSE IF c.interval > 0 /\ buf # <<>> THEN "time"
    ELSE "none"

\* the time trigger without the test of interval > 0
TriggerAnyInterval(c, buf, lbt, t) ==
    IF c.batch_size > 0 /\ Len(buf) >= c.batch_size THEN "size"
    ELSE IF buf # <<>> /\ t - lbt >= c.interval THEN "time"
    ELSE "none"

\* the two tests in the other order: the size threshold is looked at only
\* when there is no time trigger
TriggerClockFirst(c, buf, lbt, t) ==
    IF c.interval > 0
    THEN IF buf # <<>> /\ t - lbt >= c.interval THEN "time" ELSE "none"
    ELSE IF c.batch_size > 0 /\ Len(buf) >= c.batch_size THEN "size"
    ELSE "none"

\* the trigger without its elif branch: only the size threshold fires
TriggerSizeOnly(c, buf, lbt, t) ==
    IF c.batch_size > 0 /\ Len(buf) >= c.batch_size THEN "size" ELSE "none"

\* lines 151-157: which trigger, if any, fires
Trigger(c, buf, lbt, t) ==
    IF c.batch_size > 0 /\ Len(buf) >= c.batch_size THEN "size"
    ELSE IF c.interval > 0 /\ buf # <<>> /\ t - lbt >= c.interval THEN "time"
    ELSE "none"

\* lines 150-162
CheckTrigger(st, fl) ==
    IF st.crashed THEN st
    ELSE LET tr == Trigger(conf, st.buffer, st.lbt, now)
         IN  IF tr = "none" THEN st
             ELSE ClearBuffer(SummarizeBatch(st, tr, fl))

\* the iteration with the trigger evaluated before the new entries are
\* written to the full log
IterationDigestFirst(fl) ==
    LogEntriesToFullLog(CheckTrigger(Poll(RunState, fl), fl), fl)

\* one iteration of `while self._running`, lines 114-164
Iteration(fl) ==
    CheckTrigger(LogEntriesToFullLog(Poll(RunState, fl), fl), fl)

\* line 143, self.last_pos = f.tell(): reached when the log exists, unless
\* the read loop raised
LastPosAfter(st) ==
    IF st.readRaised \/ ~present THEN last_pos ELSE FileSize(file)

\* the loop without its test of self._running
TickIgnoringFlag(failures, maxTime) ==
    /\ thread = "alive"
    /\ now < maxTime
    /\ \E fl \in failures : \E st \in {Iteration(fl)} :
             /\ buffer' = st.buffer
             /\ last_batch_time' = st.lbt
             /\ hdr' = st.hdr
             /\ md' = st.md
             /\ gdoc' = st.gdoc
             /\ delivered' = st.delivered
             /\ sums' = st.sums
             /\ buffered_at' = st.bufAt
             /\ tick_at' = now
             /\ last_pos' = LastPosAfter(st)
             /\ thread' = IF st.crashed THEN "crashed" ELSE "alive"
             /\ maxRead' = IF Len(st.delivered) - Len(delivered) > maxRead
                           THEN Len(st.delivered) - Len(delivered)
                           ELSE maxRead
             \* time.sleep(1)
             /\ now' = IF st.crashed THEN now ELSE now + 1
    /\ UNCHANGED <<conf, file, present, running, docVars, wsVars>>

\* one iteration of the worker, started when the flag is still set
Tick(failures, maxTime) ==
    /\ thread = "alive"
    /\ running
    /\ now < maxTime
    /\ \E fl \in failures : \E st \in {Iteration(fl)} :
             /\ buffer' = st.buffer
             /\ last_batch_time' = st.lbt
             /\ hdr' = st.hdr
             /\ md' = st.md
             /\ gdoc' = st.gdoc
             /\ delivered' = st.delivered
             /\ sums' = st.sums
             /\ buffered_at' = st.bufAt
             /\ tick_at' = now
             /\ last_pos' = LastPosAfter(st)
             /\ thread' = IF st.crashed THEN "crashed" ELSE "alive"
             /\ maxRead' = IF Len(st.delivered) - Len(delivered) > maxRead
                           THEN Len(st.delivered) - Len(delivered)
                           ELSE maxRead
             \* time.sleep(1)
             /\ now' = IF st.crashed THEN now ELSE now + 1
    /\ UNCHANGED <<conf, file, present, running, docVars, wsVars>>

\* an external call took a second longer
TimePasses ==
    /\ conf.interval > 0
    /\ now < MaxTime
    /\ now' = now + 1
    /\ UNCHANGED <<conf, file, present, last_pos, buffer, last_batch_time,
                   running, thread, hdr, md, gdoc, delivered, sums, maxRead,
                   buffered_at, tick_at, docVars, wsVars>>

\* a stop() that also rewinds the tail offset from the calling thread
StopAndRewind ==
    /\ running
    /\ running' = FALSE
    /\ last_pos' = 0
    /\ UNCHANGED <<conf, file, present, buffer, last_batch_time, now,
                   thread, hdr, md, gdoc, delivered, sums, maxRead,
                   buffered_at, tick_at, docVars, wsVars>>

\* stop(): self._running = False
Stop ==
    /\ running
    /\ running' = FALSE
    /\ UNCHANGED <<conf, file, present, last_pos, buffer, last_batch_time,
                   now, thread, hdr, md, gdoc, delivered, sums, maxRead,
                   buffered_at, tick_at, docVars, wsVars>>

\* the worker observes the flag at the top of the loop and returns
Exit ==
    /\ thread = "alive"
    /\ ~running
    /\ thread' = "exited"
    /\ UNCHANGED <<conf, file, present, last_pos, buffer, last_batch_time,
                   now, running, hdr, md, gdoc, delivered, sums, maxRead,
                   buffered_at, tick_at, docVars, wsVars>>

(***************************************************************************)
(* Part II.  GoogleDocsLogger.                                             *)
(*                                                                         *)
(* The document body is a sequence of paragraphs [s |-> named style,       *)
(* t |-> text], the text a sequence of atoms [a |-> what, n |-> number];   *)
(* every paragraph ends with a newline, and the body always ends with one. *)
(* The code addresses the body by character index; the two indexes it      *)
(* computes are the start of a paragraph and the position of a paragraph's *)
(* final newline (startIndex of the next paragraph - 1).  Inserted text is *)
(* given by the pieces its newlines split it into; the paragraphs it       *)
(* creates take the named style of the paragraph it is inserted in, as the *)
(* document service does.  A batchUpdate applies all its requests or none. *)
(***************************************************************************)
Atom(a, n) == [a |-> a, n |-> n]

Para(s, t) == [s |-> s, t |-> t]

TitleAtom == Atom("title", 0)
SummaryAtom == Atom("Summary", 0)
FullLogAtom == Atom("Full Log", 0)
SummaryPlaceholder == Atom("Session summary will appear here.", 0)
LogPlaceholder == Atom("Session logs will appear here.", 0)
Separator == Atom("separator", 0)
Digest(n) == Atom("digest", n)

\* a freshly created document: one empty paragraph
EmptyDoc == <<Para("NORMAL_TEXT", <<>>)>>

\* text_run.lower().startswith(word), lines 299-301, and
\* text.strip().startswith(prefix), line 181
StartsWith(t, atom) == IF t = <<>> THEN FALSE ELSE Head(t) = atom

\* heading.lower() in text_run.lower(), lines 246, 324, 405: "summary" is
\* also a substring of the Summary placeholder
Contains(t, atom) ==
    \E k \in 1..Len(t) :
        \/ t[k] = atom
        \/ atom = SummaryAtom /\ t[k] = SummaryPlaceholder

\* the least index in from..Len(d) satisfying Test, 0 if none
FirstFrom(d, from, Test(_)) ==
    LET hits == {i \in from..Len(d) : Test(d[i])}
    IN  IF hits = {} THEN 0 ELSE CHOOSE i \in hits : \A j \in hits : i <= j

IsH1(para) == para.s = "HEADING_1"

\* the heading paragraph of a section, lines 238-246, 317-324, 398-405
FindHeading(d, atom) ==
    FirstFrom(d, 1, LAMBDA para : IsH1(para) /\ Contains(para.t, atom))

\* the paragraph whose final newline is the section's end index: the one
\* before the next HEADING_1, or the last of the document; lines 248-255,
\* 328-335, 407-414
SectionLast(d, i) ==
    LET j == FirstFrom(d, i + 1, IsH1)
    IN  IF j = 0 THEN Len(d) ELSE j - 1

\* _has_expected_sections, lines 281-303, on the fetched document
HasExpectedSections(d) ==
    /\ \E i \in 1..Len(d) : IsH1(d[i]) /\ StartsWith(d[i].t, SummaryAtom)
    /\ \E i \in 1..Len(d) : IsH1(d[i]) /\ StartsWith(d[i].t, FullLogAtom)

\* insertText at the position of paragraph p's final newline
InsertAtEnd(d, p, pieces) ==
    SubSeq(d, 1, p - 1)
    \o <<[d[p] EXCEPT !.t = @ \o pieces[1]]>>
    \o [k \in 1..(Len(pieces) - 1) |-> Para(d[p].s, pieces[k + 1])]
    \o SubSeq(d, p + 1, Len(d))

\* insertText at the first character of paragraph q
InsertAtStart(d, q, pieces) ==
    SubSeq(d, 1, q - 1)
    \o [k \in 1..(Len(pieces) - 1) |-> Para(d[q].s, pieces[k])]
    \o <<[d[q] EXCEPT !.t = pieces[Len(pieces)] \o @]>>
    \o SubSeq(d, q + 1, Len(d))

\* deleteContentRange from the start of paragraph a to the position of
\* paragraph b's final newline: what is left of a..b is that newline
DeleteParas(d, a, b) ==
    SubSeq(d, 1, a - 1) \o <<Para(d[b].s, <<>>)>> \o SubSeq(d, b + 1, Len(d))

\* updateParagraphStyle on the paragraphs in ps
SetStyle(d, ps, style) ==
    [i \in 1..Len(d) |-> IF i \in ps THEN [d[i] EXCEPT !.s = style] ELSE d[i]]

(***************************************************************************)
(* API failures, drawn afresh for every operation: get = k means the k-th  *)
(* documents().get of the operation raises (0: none does); the other       *)
(* fields say which batchUpdate raises.                                    *)
(***************************************************************************)
ApiFailures ==
    [get : 0..5, initWrite : BOOLEAN, style : BOOLEAN, appendWrite : BOOLEAN,
     replaceWrite : BOOLEAN, entriesWrite : BOOLEAN]

NoApiFailure ==
    [get |-> 0, initWrite |-> FALSE, style |-> FALSE, appendWrite |-> FALSE,
     replaceWrite |-> FALSE, entriesWrite |-> FALSE]

\* The result of a call: the document, whether the call raised, how many
\* gets have been made, and the value returned.
Result(d, raised, g, val) == [doc |-> d, raised |-> raised, g |-> g, val |-> val]

\* the skeleton with its two sections in the other order
SkeletonPiecesLogFirst ==
    <<<<TitleAtom>>, <<>>, <<FullLogAtom>>, <<LogPlaceholder>>, <<>>,
      <<SummaryAtom>>, <<SummaryPlaceholder>>, <<>>>>

\* the text _init_doc_structure inserts, lines 151-161, as pieces
SkeletonPieces ==
    <<<<TitleAtom>>, <<>>, <<SummaryAtom>>, <<SummaryPlaceholder>>, <<>>,
      <<FullLogAtom>>, <<LogPlaceholder>>, <<>>>>

\* the second batchUpdate of _init_doc_structure, lines 185-224: TITLE on the
\* title, HEADING_1 on "Summary", a page break (a paragraph of its own) before
\* "Full Log" and HEADING_1 on the range the heading had before the page
\* break moved it, which covers the page break's paragraph and the heading
ApplyLayout(d) ==
    LET ti == FirstFrom(d, 1, LAMBDA para : StartsWith(para.t, TitleAtom))
        si == FirstFrom(d, 1, LAMBDA para : StartsWith(para.t, SummaryAtom))
        fi == FirstFrom(d, 1, LAMBDA para : StartsWith(para.t, FullLogAtom))
        d1 == IF ti = 0 THEN d ELSE SetStyle(d, {ti}, "TITLE")
        d2 == IF si = 0 THEN d1 ELSE SetStyle(d1, {si}, "HEADING_1")
    IN  IF fi = 0 THEN d2
        ELSE SetStyle(InsertAtStart(d2, fi, <<<<>>, <<>>>>), {fi, fi + 1},
                      "HEADING_1")

\* _init_doc_structure, lines 134-227; g gets were made before
InitDocStructure(d, g, fl) ==
    IF fl.get = g + 1 THEN Result(d, TRUE, g + 1, FALSE)
    ELSE IF fl.initWrite THEN Result(d, TRUE, g + 1, FALSE)
    ELSE
      LET cleared == IF Len(d) > 1 \/ d[1].t # <<>>
                     THEN DeleteParas(d, 1, Len(d))
                     ELSE d
          d1 == InsertAtStart(cleared, 1, SkeletonPieces)
      IN  IF fl.get = g + 2 THEN Result(d1, TRUE, g + 2, FALSE)
          ELSE IF fl.style THEN Result(d1, FALSE, g + 2, FALSE)
          ELSE Result(ApplyLayout(d1), FALSE, g + 2, FALSE)

\* if not self._has_expected_sections(): self._init_doc_structure(),
\* lines 361-363 and 388-390
EnsureStructure(d, fl) ==
    IF fl.get = 1 THEN Result(d, TRUE, 1, FALSE)
    ELSE IF HasExpectedSections(d) THEN Result(d, FALSE, 1, FALSE)
    ELSE LET r == InitDocStructure(d, 1, fl)
         IN  [r EXCEPT !.val = TRUE]

\* the appended text without its separator line
AppendPiecesNoSeparator(atom) == <<<<>>, <<atom>>, <<>>>>

\* "\n" + separator line + "\n" + new_text + "\n", lines 342-344
AppendPieces(atom) == <<<<>>, <<Separator>>, <<atom>>, <<>>>>

\* _append_section_content, lines 305-356: val is the value returned
AppendSectionContent(d, g, heading, atom, fl) ==
    IF fl.get = g + 1 THEN Result(d, TRUE, g + 1, FALSE)
    ELSE
      LET i == FindHeading(d, heading)
      IN  IF i = 0 THEN Result(d, FALSE, g + 1, FALSE)
          ELSE IF fl.appendWrite THEN Result(d, FALSE, g + 1, FALSE)
          ELSE Result(InsertAtEnd(d, SectionLast(d, i), AppendPieces(atom)),
                      FALSE, g + 1, TRUE)

\* _replace_section_content, lines 230-279
ReplaceSectionContent(d, g, heading, atom, fl) ==
    IF fl.get = g + 1 THEN Result(d, TRUE, g + 1, FALSE)
    ELSE IF fl.replaceWrite THEN Result(d, TRUE, g + 1, FALSE)
    ELSE
      LET i == FindHeading(d, heading)
          text == <<<<>>, <<atom>>, <<>>>>
      IN  IF i # 0
          THEN \* delete [end of heading, section end), insert at its start
               LET b == SectionLast(d, i)
               IN  IF b = i \/ (b = i + 1 /\ d[b].t = <<>>)
                   THEN \* the range is empty or reversed: the request fails
                        Result(d, TRUE, g + 1, FALSE)
                   ELSE Result(InsertAtStart(DeleteParas(d, i + 1, b), i + 1,
                                             text),
                               FALSE, g + 1, TRUE)
          ELSE \* the heading is appended at the end of the document, lines
               \* 264-273: "\n" + heading + "\n" before the final newline,
               \* HEADING_1 from that position on, then the text after it
               LET n == Len(d)
                   d1 == InsertAtEnd(d, n, <<<<>>, <<heading>>, <<>>>>)
                   d2 == SetStyle(d1, {n, n + 1}, "HEADING_1")
               IN  Result(InsertAtStart(d2, n + 2, text), FALSE, g + 1, TRUE)

\* write_summary, lines 359-368; val says which path wrote the digest
WriteSummaryOp(d, atom, fl) ==
    LET r0 == EnsureStructure(d, fl)
    IN  IF r0.raised THEN [r0 EXCEPT !.val = "raised"]
        ELSE
          LET r1 == AppendSectionContent(r0.doc, r0.g, SummaryAtom, atom, fl)
          IN  IF r1.raised THEN [r1 EXCEPT !.val = "raised"]
              ELSE IF r1.val THEN [r1 EXCEPT !.val = "appended"]
              ELSE
                LET r2 == ReplaceSectionContent(r1.doc, r1.g, SummaryAtom,
                                                atom, fl)
                IN  IF r2.raised THEN [r2 EXCEPT !.val = "raised"]
                    ELSE [r2 EXCEPT !.val = "replaced"]

\* the text write_entries inserts for one entry, lines 424-584, as pieces:
\* a note is "[ts] NOTE: text\n\n"; a command is its command line, its
\* indented output if any, its exit code if not 0, and a blank line
EntryPieces(e) ==
    IF e.kind = "note" THEN <<<<Atom("note", e.id)>>, <<>>, <<>>>>
    ELSE IF e.kind = "command" THEN <<<<Atom("command", e.id)>>, <<>>, <<>>>>
    ELSE <<<<Atom("command", e.id)>>, <<Atom("output", e.id)>>,
           <<Atom("exit code", e.id)>>, <<>>, <<>>>>

\* the pieces of two texts written one after the other
JoinPieces(p, q) ==
    SubSeq(p, 1, Len(p) - 1) \o <<p[Len(p)] \o q[1]>> \o SubSeq(q, 2, Len(q))

RECURSIVE EntriesPieces(_)
EntriesPieces(es) ==
    IF Len(es) = 1 THEN EntryPieces(es[1])
    ELSE JoinPieces(EntryPieces(es[1]), EntriesPieces(Tail(es)))

\* write_entries, lines 386-591; val = "written", "no section" or "raised"
WriteEntriesOp(d, es, fl) ==
    LET r0 == EnsureStructure(d, fl)
    IN  IF r0.raised THEN [r0 EXCEPT !.val = "raised"]
        ELSE IF fl.get = r0.g + 1 THEN Result(r0.doc, TRUE, r0.g + 1, "raised")
        ELSE
          LET i == FindHeading(r0.doc, FullLogAtom)
          IN  IF i = 0 THEN Result(r0.doc, FALSE, r0.g + 1, "no section")
              ELSE IF fl.entriesWrite
                   THEN Result(r0.doc, TRUE, r0.g + 1, "raised")
              ELSE Result(InsertAtEnd(r0.doc, SectionLast(r0.doc, i),
                                      EntriesPieces(es)),
                          FALSE, r0.g + 1, "written")

\* __init__, lines 52-65: inspect, initialize unless both sections are found;
\* a failed inspection is answered by initializing
\* and so is an initialization that raised
ConstructOp(d, fl) ==
    IF fl.get = 1
    THEN [InitDocStructure(d, 1, fl) EXCEPT !.val = "initialized blind"]
    ELSE IF HasExpectedSections(d) THEN Result(d, FALSE, 1, "left intact")
    ELSE LET r == InitDocStructure(d, 1, fl)
         IN  IF r.raised
             THEN [InitDocStructure(r.doc, r.g, fl) EXCEPT !.val = "initialized"]
             ELSE [r EXCEPT !.val = "initialized"]

(***************************************************************************)
(* The operations on the document as steps.                                *)
(***************************************************************************)
OpRecord(op, r, fl) ==
    [op |-> op, pre |-> doc, val |-> r.val, raised |-> r.raised,
     failed |-> fl # NoApiFailure]

\* the entries still in the document
Present(d, ids) ==
    {id \in ids : \E i \in 1..Len(d) : \E k \in 1..Len(d[i].t) :
                      d[i].t[k].n = id /\ d[i].t[k].a \in {"note", "command"}}

\* GoogleDocsLogger(...), core.py lines 83-95: a constructor that raises
\* leaves self.google_logger = None
Construct ==
    /\ nops < MaxOps
    /\ \E fl \in {f \in ApiFailures :
                     ~f.appendWrite /\ ~f.replaceWrite /\ ~f.entriesWrite} :
       \E r \in {ConstructOp(doc, fl)} :
          /\ doc' = r.doc
          /\ logger' = IF r.raised THEN "none" ELSE "ready"
          /\ lastOp' = OpRecord("construct", r, fl)
          /\ mirrored' = Present(r.doc, mirrored)
    /\ nops' = nops + 1
    /\ UNCHANGED <<nsum, nent, appended, engineVars, wsVars>>

\* google_logger.write_summary(summary), core.py lines 237-241
WriteSummary ==
    /\ nops < MaxOps
    /\ logger = "ready"
    /\ \E fl \in {f \in ApiFailures : ~f.entriesWrite} :
       \E r \in {WriteSummaryOp(doc, Digest(nsum + 1), fl)} :
          /\ doc' = r.doc
          /\ lastOp' = OpRecord("write_summary", r, fl)
          /\ appended' = IF r.val = "appended" THEN appended \cup {nsum + 1}
                         ELSE appended
    /\ nsum' = nsum + 1
    /\ nops' = nops + 1
    /\ UNCHANGED <<logger, nent, mirrored, engineVars, wsVars>>

\* the batches of entries one tick hands over
EntryBatches(n) ==
    { <<[id |-> n + 1, kind |-> k]>> : k \in {"note", "command", "failed command"} }
    \cup { <<[id |-> n + 1, kind |-> "note"], [id |-> n + 2, kind |-> "failed command"]>> }

\* google_logger.write_entries(entries), core.py lines 182-186
WriteEntries ==
    /\ nops < MaxOps
    /\ logger = "ready"
    /\ \E es \in EntryBatches(nent) :
       \E fl \in {f \in ApiFailures : ~f.appendWrite /\ ~f.replaceWrite} :
       \E r \in {WriteEntriesOp(doc, es, fl)} :
          /\ doc' = r.doc
          /\ lastOp' = OpRecord("write_entries", r, fl)
          /\ nent' = nent + Len(es)
          /\ mirrored' = IF r.val = "written"
                         THEN mirrored \cup {es[k].id : k \in 1..Len(es)}
                         ELSE mirrored
    /\ nops' = nops + 1
    /\ UNCHANGED <<logger, nsum, appended, engineVars, wsVars>>

\* somebody edits the document outside the program: a section's heading,
\* or the heading with the section's body, is deleted
DeleteOutOfBand ==
    /\ nops < MaxOps
    /\ \E h \in {SummaryAtom, FullLogAtom}, withBody \in BOOLEAN :
         LET i == FirstFrom(doc, 1, LAMBDA para : IsH1(para) /\ StartsWith(para.t, h))
             b == IF withBody THEN SectionLast(doc, i) ELSE i
             d1 == SubSeq(doc, 1, i - 1) \o SubSeq(doc, b + 1, Len(doc))
         IN  /\ i # 0
             /\ doc' = IF b = Len(doc) THEN Append(d1, Para("NORMAL_TEXT", <<>>))
                       ELSE d1
             /\ mirrored' = Present(doc', mirrored)
             /\ lastOp' = [op |-> "out of band", pre |-> doc, val |-> "deleted",
                           raised |-> FALSE, failed |-> FALSE]
    /\ nops' = nops + 1
    /\ UNCHANGED <<logger, nsum, nent, appended, engineVars, wsVars>>

\* the sessions the machine can run side by side, and the workspaces
Sessions == {1, 2}
Workspaces == {"a", "b"}

\* the destinations of a session of workspace w, session_manager.py 207 and
\* 219 with google_docs.py 48-49: the summary file {w}_summary.md and the
\* document named "term-trace: {w} - {w}"; both are named by the workspace
SummaryFileOf(w) == <<"md", w>>
DocumentOf(w) == <<"doc", w>>
Destinations == {SummaryFileOf(w) : w \in Workspaces}
                    \cup {DocumentOf(w) : w \in Workspaces}

\* no session has been started, no destination exists
WorkspaceInit ==
    /\ sessions = [s \in Sessions |-> [ws |-> "none", state |-> "idle"]]
    /\ dests = [d \in Destinations |-> <<>>]

\* the document of a session that has not touched it yet
DocInit(docs) ==
    /\ doc \in docs
    /\ logger = "none"
    /\ nops = 0
    /\ nsum = 0
    /\ nent = 0
    /\ mirrored = {}
    /\ appended = {}
    /\ lastOp = [op |-> "none", pre |-> doc, val |-> "none", raised |-> FALSE,
                 failed |-> FALSE]

\* a document somebody has typed into
StrayDoc == <<Para("NORMAL_TEXT", <<Atom("stray", 0)>>), Para("NORMAL_TEXT", <<>>)>>


(***************************************************************************)
(* Construction (__init__, lines 46-99) and the specifications.            *)
(***************************************************************************)
\* mode and llm_function as start_session and the tests pass them
Backends ==
    { [mode |-> "markdown", llm |-> FALSE],
      [mode |-> "custom", llm |-> TRUE],
      [mode |-> "custom", llm |-> FALSE],
      [mode |-> "openai", llm |-> FALSE] }

Confs(sizes, intervals) ==
    { [batch_size |-> n, interval |-> t, mode |-> b.mode, llm |-> b.llm,
       gdoc |-> g] :
        n \in sizes, t \in intervals, b \in Backends, g \in BOOLEAN }

EngineInit(confs) ==
    /\ conf \in confs
    /\ file = <<>>
    /\ present = FALSE
    /\ last_pos = 0
    /\ buffer = <<>>
    /\ last_batch_time = 0
    /\ now = 0
    /\ running = TRUE
    /\ thread = "alive"
    /\ hdr = FALSE
    /\ md = <<[t |-> "title"]>>
    /\ gdoc = <<>>
    /\ delivered = <<>>
    /\ sums = <<>>
    /\ maxRead = 0
    /\ buffered_at = 0
    /\ tick_at = -1

\* the general specification: a producer whose writes may be split or
\* malformed, every external failure, stop()
Init == EngineInit(Confs({0, 2}, {-1, 2})) /\ DocInit({EmptyDoc}) /\ WorkspaceInit

Next ==
    \/ AppendLine(LineKinds, 1..LineLen, MaxLines)
    \/ ContinueLine
    \/ Tick(Failures, MaxTime)
    \/ TimePasses
    \/ Stop
    \/ Exit

Spec == Init /\ [][Next]_vars

\* the producer appends complete JSON lines only; every external failure
InitAtomic == EngineInit(Confs({0, 2}, {-1, 2})) /\ DocInit({EmptyDoc}) /\ WorkspaceInit

NextAtomic ==
    \/ AppendLine(JsonKinds, {LineLen}, MaxLines)
    \/ Tick(Failures, MaxTime)
    \/ TimePasses
    \/ Stop
    \/ Exit

SpecAtomic == InitAtomic /\ [][NextAtomic]_vars

\* the producer's writes may be split or malformed; no external call fails
InitTail == EngineInit(Confs({0, 2}, {-1})) /\ DocInit({EmptyDoc}) /\ WorkspaceInit

NextTail ==
    \/ AppendLine(LineKinds, 1..LineLen, MaxLines)
    \/ ContinueLine
    \/ Tick({NoFailure}, MaxTime)
    \/ Stop
    \/ Exit

SpecTail == InitTail /\ [][NextTail]_vars

\* the document sink alone: constructions, writes, edits from outside
InitDoc ==
    /\ EngineInit({c \in Confs({2}, {-1}) : c.mode = "markdown" /\ c.gdoc})
    /\ DocInit({EmptyDoc, StrayDoc})
    /\ WorkspaceInit

NextDoc ==
    \/ Construct
    \/ WriteSummary
    \/ WriteEntries
    \/ DeleteOutOfBand

SpecDoc == InitDoc /\ [][NextDoc]_vars

\* the time trigger alone: batch_size = 0, interval = 2, no call fails
InitTime ==
    /\ EngineInit({c \in Confs({0}, {2}) : c.mode = "markdown"})
    /\ DocInit({EmptyDoc})
    /\ WorkspaceInit

NextTime ==
    \/ AppendLine(JsonKinds, {LineLen}, MaxLines)
    \/ Tick({NoFailure}, MaxTime)
    \/ TimePasses

SpecTime == InitTime /\ [][NextTime]_vars

\* a session whose delegate calls a text-generation provider
InitProvider ==
    /\ EngineInit({c \in Confs({0, 2}, {-1}) : c.mode = "custom" /\ c.llm})
    /\ DocInit({EmptyDoc})
    /\ WorkspaceInit

NextProvider ==
    \/ AppendLine(JsonKinds, {LineLen}, MaxLines)
    \/ Tick(ProviderFailures, MaxTime)

SpecProvider == InitProvider /\ [][NextProvider]_vars

\* whole lines, some of them not JSON; no external call fails
InitMalformed == EngineInit(Confs({0, 2}, {-1})) /\ DocInit({EmptyDoc}) /\ WorkspaceInit

NextMalformed ==
    \/ AppendLine(LineKinds, {LineLen}, MaxLines)
    \/ Tick({NoFailure}, MaxTime)
    \/ Stop
    \/ Exit

SpecMalformed == InitMalformed /\ [][NextMalformed]_vars

\* a session that is stopped; the scheduler lets the worker run
InitStop == EngineInit(Confs({2}, {-1})) /\ DocInit({EmptyDoc}) /\ WorkspaceInit

NextStop ==
    \/ AppendLine(JsonKinds, {LineLen}, MaxLines)
    \/ Tick(Failures, MaxTime)
    \/ Stop
    \/ Exit

SpecStop == InitStop /\ [][NextStop]_vars /\ WF_vars(Exit)

\* batch_size = 3, no time trigger, up to BatchLines lines
InitBatch ==
    /\ EngineInit({c \in Confs({3}, {-1}) : c.mode = "markdown" /\ ~c.gdoc})
    /\ DocInit({EmptyDoc})
    /\ WorkspaceInit

NextBatch ==
    \/ AppendLine(JsonKinds, {LineLen}, BatchLines)
    \/ Tick({NoFailure}, BatchLines + 1)

SpecBatch == InitBatch /\ [][NextBatch]_vars

(***************************************************************************)
(* Properties of the worker.                                               *)
(***************************************************************************)
IsPrefix(p, q) == Len(p) <= Len(q) /\ SubSeq(q, 1, Len(p)) = p

\* the entries (non-control lines) the tailer has delivered, in order
EntriesDelivered == SelectSeq(delivered, LAMBDA i : file[i].k # "summarize")

ControlsDelivered == SelectSeq(delivered, LAMBDA i : file[i].k = "summarize")

\* how many full-log blocks of the markdown file hold entry i
MdLogCount(i) ==
    Cardinality({k \in 1..Len(md) :
                   IF md[k].t = "log"
                   THEN \E j \in 1..Len(md[k].es) : md[k].es[j] = i
                   ELSE FALSE})

\* how many write_entries calls were handed entry i
GdocEntriesCount(i) ==
    Cardinality({k \in 1..Len(gdoc) :
                   IF gdoc[k].op = "entries"
                   THEN \E j \in 1..Len(gdoc[k].es) : gdoc[k].es[j] = i
                   ELSE FALSE})

\* the entries passed to the summarization calls before the k-th
RECURSIVE CoveredBefore(_)
CoveredBefore(k) ==
    IF k <= 1 THEN 0 ELSE CoveredBefore(k - 1) + Len(sums[k - 1].es)

\* C1: when the producer appends only complete JSON lines, the tailer
\* delivers every line exactly once and in file order: the delivered lines
\* are exactly lines 1..k of the file, and while the worker has not been
\* killed the offset stands right behind the last delivered line.
C1_ExactlyOnceInFileOrder ==
    /\ delivered = [i \in 1..Len(delivered) |-> i]
    /\ Len(delivered) <= Len(file)
    /\ thread # "crashed" => last_pos = LineLen * Len(delivered)

C1_Witness ==
    /\ thread = "alive"
    /\ Len(delivered) = 3
    /\ maxRead = 2
    /\ last_pos = FileSize(file)

\* C2: no failure of a sink write or of the summarization backend
\* terminates the worker: it is alive, or it has exited after stop().
C2_WorkerSurvivesFailures ==
    \/ thread = "alive"
    \/ thread = "exited" /\ ~running

\* C3: after a pass in delegate mode whose delegate was absent or raised,
\* the worker has not crashed and the entries of the pass are still at the
\* front of the buffer.
C3_FailedPassKeepsBuffer ==
    IF sums # <<>> /\ conf.mode = "custom"
    THEN Last(sums).digest \in {"none", "raise"}
            => thread # "crashed" /\ IsPrefix(Last(sums).es, buffer)
    ELSE TRUE

\* C5 as stated: every size-triggered summarization call covers exactly
\* batch_size entries.
C5_SizeCallsCoverExactlyN ==
    \A k \in 1..Len(sums) :
        sums[k].trig = "size" => Len(sums[k].es) = conf.batch_size

\* C5 as amended: with batch_size = N > 0 and no time trigger, every
\* summarization call covers the entries that follow the previous call's in
\* log order; a size-triggered call covers the whole buffer, which is at
\* least N entries, and exactly N when no tick has read more than one line;
\* N = 3 with 7 entries and no control line, read one per tick, gives
\* exactly two calls, over entries 1-3 and 4-6, and entry 7 stays buffered.
C5_SizeCallsCoverWholeBuffer ==
    /\ \A k \in 1..Len(sums) :
          /\ sums[k].es = SubSeq(EntriesDelivered, CoveredBefore(k) + 1,
                                 CoveredBefore(k) + Len(sums[k].es))
          /\ sums[k].trig = "size" => Len(sums[k].es) >= conf.batch_size
          /\ sums[k].trig = "size" /\ maxRead <= 1
                => Len(sums[k].es) = conf.batch_size
    /\ buffer = SubSeq(EntriesDelivered, CoveredBefore(Len(sums) + 1) + 1,
                       Len(EntriesDelivered))
    /\ (maxRead <= 1 /\ conf.batch_size = 3 /\ Len(delivered) = 7
        /\ ControlsDelivered = <<>> /\ last_pos = 7 * LineLen)
          => /\ Len(sums) = 2
             /\ sums[1].es = <<1, 2, 3>> /\ sums[1].trig = "size"
             /\ sums[2].es = <<4, 5, 6>> /\ sums[2].trig = "size"
             /\ buffer = <<7>>

C5_Witness ==
    /\ maxRead = 1
    /\ Len(delivered) = 7
    /\ ControlsDelivered = <<>>
    /\ Len(sums) = 2
    /\ buffer = <<7>>

\* C6: every non-control entry the tailer has polled is in the markdown
\* full log exactly once, and was handed to the document sink exactly once
\* when one is enabled.
C6_PolledEntriesMirrored ==
    \A k \in 1..Len(EntriesDelivered) :
        /\ MdLogCount(EntriesDelivered[k]) = 1
        /\ conf.gdoc => GdocEntriesCount(EntriesDelivered[k]) = 1

\* C7: the tail offset always stands at a line boundary, and no line is
\* parsed or returned as an entry before its newline has been written.
C7_OffsetAtLineBoundary ==
    /\ last_pos % LineLen = 0
    /\ \A k \in 1..Len(delivered) : file[delivered[k]].b = LineLen

(***************************************************************************)
(* Properties of the document.                                             *)
(***************************************************************************)
\* the paragraphs of a section's body: from the one after the heading to
\* the one before the next HEADING_1
SectionBody(d, atom) ==
    LET i == FindHeading(d, atom)
    IN  IF i = 0 THEN <<>> ELSE SubSeq(d, i + 1, SectionLast(d, i))

\* the index of the paragraph whose text is this atom, 0 if none
ParaOf(d, atom) == FirstFrom(d, 1, LAMBDA para : para.t = <<atom>>)

HeadingCount(d, atom) ==
    Cardinality({i \in 1..Len(d) : IsH1(d[i]) /\ StartsWith(d[i].t, atom)})

WriteOps == {"write_entries", "write_summary"}

\* C4: after a write_entries or write_summary call, every entry mirrored
\* into the "Full Log" section before, and not taken out by anybody else,
\* is still in the document.
C4_FullLogOnlyGrows ==
    lastOp.op \in WriteOps => Present(doc, mirrored) = mirrored

\* C8: constructing the logger on a document that has both headings leaves
\* the document as it was, with one heading of each kind.
C8_ConstructionChangesNothing ==
    (lastOp.op = "construct" /\ HasExpectedSections(lastOp.pre))
       => /\ doc = lastOp.pre
          /\ HeadingCount(doc, SummaryAtom) = 1
          /\ HeadingCount(doc, FullLogAtom) = 1

\* C9: a digest published while the "Summary" heading is missing and the
\* "Full Log" heading is there, with no API call failing, goes through the
\* replace path; the Summary section then holds the new digest only and the
\* Full Log section is as it was.
C9_MissingSummaryIsReplaced ==
    (/\ lastOp.op = "write_summary"
     /\ ~lastOp.failed
     /\ HeadingCount(lastOp.pre, SummaryAtom) = 0
     /\ HeadingCount(lastOp.pre, FullLogAtom) = 1)
       => /\ lastOp.val = "replaced"
          /\ HeadingCount(doc, SummaryAtom) = 1
          /\ \A k \in 1..Len(SectionBody(doc, SummaryAtom)) :
                SectionBody(doc, SummaryAtom)[k].t \in {<<>>, <<Digest(nsum)>>}
          /\ SectionBody(doc, FullLogAtom) = SectionBody(lastOp.pre, FullLogAtom)

\* C10: when write_summary appends digest n to the Summary section of a
\* document that has both headings, the digest stands after its separator,
\* between the two headings and after every digest appended before it, each
\* of those still behind its own separator, and the document without the
\* three inserted paragraphs is the document as it was.
C10_AppendsInOrder ==
    (/\ lastOp.op = "write_summary"
     /\ lastOp.val = "appended"
     /\ HasExpectedSections(lastOp.pre))
       => LET k == ParaOf(doc, Digest(nsum))
              si == FindHeading(doc, SummaryAtom)
              fi == FindHeading(doc, FullLogAtom)
          IN  /\ si # 0 /\ si < k /\ k < fi
              /\ doc[k - 1].t = <<Separator>>
              /\ \A m \in appended :
                    (m < nsum /\ ParaOf(lastOp.pre, Digest(m)) # 0)
                       => LET j == ParaOf(doc, Digest(m))
                          IN  /\ si < j /\ j < k - 1
                              /\ doc[j - 1].t = <<Separator>>
              /\ SubSeq(doc, 1, k - 2) \o SubSeq(doc, k + 2, Len(doc))
                    = lastOp.pre

C10_Witness ==
    /\ lastOp.op = "write_summary"
    /\ lastOp.val = "appended"
    /\ HasExpectedSections(lastOp.pre)
    /\ appended = {1, 2}
    /\ ParaOf(lastOp.pre, Digest(1)) # 0
    /\ mirrored # {}

(***************************************************************************)
(* Properties of the triggers.                                             *)
(***************************************************************************)
\* when the trigger clock was last reset before the k-th summarization
\* call: by the call before it, or at the start of the worker (line 111)
ResetBefore(k) == IF k <= 1 THEN 0 ELSE sums[k - 1].at

\* C11 as stated: with batch_size = 0 and interval = T, a time-triggered
\* call over one entry happens only when at least T seconds have elapsed
\* since the entry was buffered, and no single buffered entry is left over
\* by a loop iteration that started T seconds or more after it was buffered.
C11_NoCallBeforeEntryIsOld ==
    /\ \A k \in 1..Len(sums) :
          (sums[k].trig = "time" /\ Len(sums[k].es) = 1)
             => sums[k].at - sums[k].since >= conf.interval
    /\ (thread = "alive" /\ Len(buffer) = 1 /\ tick_at >= 0)
          => tick_at - buffered_at < conf.interval

\* C11 as amended: with batch_size = 0 and interval = T, a time-triggered
\* call happens only when at least T seconds have elapsed since the trigger
\* clock was last reset (start of the worker or previous summarization
\* pass); a loop iteration that starts T seconds or more after the reset
\* leaves no entry in the buffer; every call covers exactly the entries
\* buffered since the call before it, so an entry is in exactly one call.
C11_TimeCallsFollowClock ==
    /\ \A k \in 1..Len(sums) :
          /\ sums[k].trig = "time" => sums[k].at - ResetBefore(k) >= conf.interval
          /\ sums[k].trig \in {"time", "control"}
          /\ sums[k].es = SubSeq(EntriesDelivered, CoveredBefore(k) + 1,
                                 CoveredBefore(k) + Len(sums[k].es))
    /\ last_batch_time = ResetBefore(Len(sums) + 1)
    /\ (thread = "alive" /\ buffer # <<>> /\ tick_at >= 0)
          => tick_at - last_batch_time < conf.interval
    /\ buffer = SubSeq(EntriesDelivered, CoveredBefore(Len(sums) + 1) + 1,
                       Len(EntriesDelivered))

C11_Witness ==
    /\ Len(sums) = 1
    /\ sums[1].trig = "time"
    /\ sums[1].es = <<1>>
    /\ sums[1].at - sums[1].since >= conf.interval
    /\ buffer = <<>>
    /\ thread = "alive"

\* the summarization calls the control line c has forced
CallsBy(c) == {k \in 1..Len(sums) : sums[k].by = c}

\* the entries that precede the control line c in the log and that no call
\* other than the one forced by c has covered, in log order
Unsummarized(c) ==
    SelectSeq(EntriesDelivered,
              LAMBDA i : /\ i < c
                         /\ \A k \in 1..Len(sums) :
                               sums[k].by # c
                                  => \A j \in 1..Len(sums[k].es) : sums[k].es[j] # i)

\* the entries no summarization call has covered yet, in log order
NotCovered ==
    SubSeq(EntriesDelivered, CoveredBefore(Len(sums) + 1) + 1,
           Len(EntriesDelivered))

\* C12: a summarize control line read on an empty buffer forces no call and
\* no digest reaches a sink without a call; read on a non-empty buffer it
\* forces exactly one call, over exactly the entries before it in the log
\* that are not summarized yet; while the worker lives the buffer holds the
\* entries read since the last call and the trigger clock stands at the time
\* of the last call (at the start of the worker if there was none), whatever
\* batch_size and interval are.
C12_ControlFlushesBuffer ==
    /\ \A n \in 1..Len(ControlsDelivered) :
          LET c == ControlsDelivered[n]
          IN  IF Unsummarized(c) = <<>> THEN CallsBy(c) = {}
              ELSE \E k \in 1..Len(sums) :
                      /\ CallsBy(c) = {k}
                      /\ sums[k].es = Unsummarized(c)
                      /\ sums[k].trig = "control"
    /\ \A b \in 1..Len(md) :
          md[b].t = "summary" => \E k \in 1..Len(sums) : sums[k].es = md[b].es
    /\ \A b \in 1..Len(gdoc) :
          gdoc[b].op = "summary" => \E k \in 1..Len(sums) : sums[k].es = gdoc[b].es
    /\ thread # "crashed"
          => /\ buffer = NotCovered
             /\ conf.interval > 0 => last_batch_time = ResetBefore(Len(sums) + 1)

C12_Witness ==
    /\ thread = "alive"
    /\ conf.interval > 0
    /\ \E n \in 1..Len(ControlsDelivered) :
          /\ CallsBy(ControlsDelivered[n]) = {}
          /\ Unsummarized(ControlsDelivered[n]) = <<>>
    /\ \E n \in 1..Len(ControlsDelivered) :
          /\ CallsBy(ControlsDelivered[n]) # {}
          /\ last_batch_time > 0
    /\ buffer = <<>>

\* C13: when the delegate's provider call fails, nothing is written for
\* that batch: no Summary block of the markdown file and no write_summary
\* call carries the text of a failed attempt.
C13_FailedAttemptWritesNothing ==
    /\ \A b \in 1..Len(md) : md[b].t = "summary" => md[b].digest # "error"
    /\ \A b \in 1..Len(gdoc) : gdoc[b].op = "summary" => gdoc[b].digest # "error"

\* the summarization pass of the k-th call returned to the loop
Returned(k) == sums[k].digest # "raise"

\* C14: the entries of every summarization pass that returned have left the
\* buffer, whatever the trigger and whether or not the pass produced a
\* digest, and the trigger clock was reset at the pass: it is not older than
\* any returned pass and stands at the time of the last one.
C14_ReturnedPassEmptiesBuffer ==
    /\ \A k \in 1..Len(sums) :
          Returned(k)
             => /\ \A i \in 1..Len(sums[k].es), j \in 1..Len(buffer) :
                      sums[k].es[i] # buffer[j]
                /\ conf.interval > 0 => last_batch_time >= sums[k].at
    /\ (sums # <<>> /\ conf.interval > 0 /\ Returned(Len(sums)))
          => last_batch_time = Last(sums).at

C14_Witness ==
    /\ thread = "alive"
    /\ buffer = <<>>
    /\ Len(sums) = 2
    /\ sums[1].digest = "none" /\ sums[1].trig = "size"
    /\ sums[2].digest = "none" /\ sums[2].trig = "time"
    /\ last_batch_time = sums[2].at
    /\ sums[2].at > sums[1].at

\* the malformed lines of the log
Malformed == {i \in 1..Len(file) : file[i].k = "bad"}

\* C15: a malformed line does not end the worker; the offset never stands
\* behind a malformed line; every well-formed entry that was read, the ones
\* before a malformed line included, is in the markdown full log exactly
\* once and is in the buffer or in exactly one summarization call.
C15_MalformedLineIsConfined ==
    /\ thread # "crashed"
    /\ \A i \in Malformed : last_pos <= (i - 1) * LineLen
    /\ \A n \in 1..Len(EntriesDelivered) :
          LET e == EntriesDelivered[n]
          IN  /\ MdLogCount(e) = 1
              /\ Cardinality({j \in 1..Len(buffer) : buffer[j] = e})
                 + Cardinality({k \in 1..Len(sums) :
                                  \E j \in 1..Len(sums[k].es) : sums[k].es[j] = e})
                 = 1

(***************************************************************************)
(* Properties of the document writes.                                      *)
(***************************************************************************)
\* the digests in the body of the Summary section
SummaryDigests(d) ==
    {n \in 1..nsum : ParaOf(SectionBody(d, SummaryAtom), Digest(n)) # 0}

\* C16: write_summary on a document that has both headings, where the
\* append finds its heading, never takes the replace path, and the digests
\* the Summary section held before the call are still in it afterwards.
C16_ReplaceOnlyWhenNotFound ==
    (lastOp.op = "write_summary" /\ HasExpectedSections(lastOp.pre))
       => /\ lastOp.val # "replaced"
          /\ SummaryDigests(lastOp.pre) \subseteq SummaryDigests(doc)

\* the calls that inserted text in the document
Inserted == {"appended", "replaced", "written"}

\* C17: a write operation that inserted digest or entry text inserted it in
\* a document that has both headings.
C17_InsertOnlyWithBothHeadings ==
    (lastOp.op \in WriteOps /\ lastOp.val \in Inserted)
       => HasExpectedSections(doc)

StoppedStep ==
    /\ ~running
          => /\ ~running'
             /\ UNCHANGED <<last_pos, buffer, last_batch_time, hdr, md, gdoc,
                            delivered, sums>>
    /\ thread # "alive" => thread' = thread
    /\ thread' = "exited" => ~running

DocCalls(op, es) == {g \in 1..Len(gdoc) : gdoc[g].op = op /\ gdoc[g].es = es}

\* C20: with a document sink, every batch of entries mirrored to the
\* markdown full log and every digest computed is sent to the sink in
\* exactly one call, whether that call or an earlier one failed or not, and
\* no entry is in two write_entries calls; without a sink nothing is sent.
C20_FailedPublishNotRetried ==
    /\ conf.gdoc
          => /\ \A b \in 1..Len(md) :
                   md[b].t = "log"
                      => Cardinality(DocCalls("entries", md[b].es)) = 1
             /\ \A k \in 1..Len(sums) :
                   Cardinality(DocCalls("summary", sums[k].es))
                      = IF sums[k].digest \in {"md", "llm", "error"} THEN 1 ELSE 0
             /\ \A g \in 1..Len(gdoc) :
                   gdoc[g].op = "entries"
                      => \A j \in 1..Len(gdoc[g].es) :
                            GdocEntriesCount(gdoc[g].es[j]) = 1
    /\ ~conf.gdoc => gdoc = <<>>

C20_Witness ==
    /\ thread = "alive"
    /\ \E g \in 1..Len(gdoc), h \in 1..Len(gdoc), i \in 1..Len(gdoc) :
          /\ g < h /\ h < i
          /\ gdoc[g].op = "entries" /\ ~gdoc[g].ok
          /\ gdoc[h].op = "summary" /\ ~gdoc[h].ok
          /\ gdoc[i].op = "entries" /\ gdoc[i].ok

(***************************************************************************)
(* The document sink after a failed call.                                  *)
(***************************************************************************)
\* the calls on the document sink that raised
FailedCalls == {g \in 1..Len(gdoc) : ~gdoc[g].ok}

\* C21: once a write to the document sink has failed, the sink is disabled
\* for the rest of the session: no later call on it is attempted.
C21_UnavailableSinkIsDisabled ==
    \A g \in FailedCalls : g = Len(gdoc)

(***************************************************************************)
(* start_session (logger/session_manager.py): the mode and the delegate    *)
(* the engine is constructed with.                                         *)
(*   summarize, summarize_mode : the arguments                             *)
(*   credential : the token of the provider is set in the environment      *)
(*   construct  : constructing the provider's summarizer succeeds          *)
(*   test       : test_connection() returns success                        *)
(***************************************************************************)
ProviderModes == {"openai", "github", "huggingface"}

StartInputs ==
    [summarize : BOOLEAN, summarize_mode : ProviderModes \cup {"markdown"},
     credential : BOOLEAN, construct : BOOLEAN, test : BOOLEAN]

Markdown == [raised |-> FALSE, mode |-> "markdown", llm |-> FALSE]

Custom == [raised |-> FALSE, mode |-> "custom", llm |-> TRUE]

\* lines 103-203: actual_mode and llm_fn.  The openai and github branches
\* construct and test the summarizer inside a try; the huggingface branch
\* constructs HuggingFaceSummarizer outside any try, so an exception of its
\* constructor (Config.get_hf_api_url formats a template taken from the
\* environment) leaves start_session.
StartSession(a) ==
    IF ~a.summarize
    THEN [raised |-> FALSE, mode |-> a.summarize_mode, llm |-> FALSE]
    ELSE IF a.summarize_mode = "huggingface"
         THEN IF ~a.credential THEN Markdown
              ELSE IF ~a.construct
                   THEN [raised |-> TRUE, mode |-> "none", llm |-> FALSE]
                   ELSE Custom
    ELSE IF a.summarize_mode \in {"openai", "github"}
         THEN IF ~a.credential \/ ~a.construct \/ ~a.test THEN Markdown
              ELSE Custom
    ELSE [raised |-> FALSE, mode |-> a.summarize_mode, llm |-> FALSE]

\* the delegate raises or its provider call fails; the writes succeed
DelegateFailures ==
    [mdlog : {FALSE}, gent : {FALSE}, llm : BOOLEAN, api : BOOLEAN,
     mdsum : {FALSE}, gsum : {FALSE}]

\* a session start_session has set up: the engine is constructed with the
\* mode and delegate of lines 211-220, unless start_session raised
InitSession ==
    /\ \E a \in StartInputs : \E r \in {StartSession(a)} :
          /\ conf = [batch_size |-> 2, interval |-> -1, mode |-> r.mode,
                     llm |-> r.llm, gdoc |-> FALSE, start |-> a]
          /\ thread = IF r.raised THEN "none" ELSE "alive"
    /\ file = <<>>
    /\ present = FALSE
    /\ last_pos = 0
    /\ buffer = <<>>
    /\ last_batch_time = 0
    /\ now = 0
    /\ running = TRUE
    /\ hdr = FALSE
    /\ md = <<[t |-> "title"]>>
    /\ gdoc = <<>>
    /\ delivered = <<>>
    /\ sums = <<>>
    /\ maxRead = 0
    /\ buffered_at = 0
    /\ tick_at = -1
    /\ DocInit({EmptyDoc})
    /\ WorkspaceInit

NextSession ==
    \/ AppendLine(JsonKinds, {LineLen}, MaxLines)
    \/ Tick(DelegateFailures, MaxTime)

SpecSession == InitSession /\ [][NextSession]_vars

\* the start asked for a provider whose credential is absent, or whose
\* construction or connection test fails
Degraded(a) ==
    /\ a.summarize
    /\ a.summarize_mode \in ProviderModes
    /\ \/ ~a.credential
       \/ ~a.construct
       \/ a.summarize_mode # "huggingface" /\ ~a.test

\* C22: a session started with summarize = true and a provider mode whose
\* credential is absent, or whose construction or connection test fails,
\* has an engine in markdown mode without a delegate; no error is raised,
\* and every summarization call produces the deterministic digest.
C22_DegradesToMarkdown ==
    Degraded(conf.start) =>
        /\ thread # "none"
        /\ conf.mode = "markdown"
        /\ ~conf.llm
        /\ \A k \in 1..Len(sums) : sums[k].digest = "md"

(***************************************************************************)
(* Control entries.                                                        *)
(***************************************************************************)
\* the lines of the log whose type is "summarize"
Controls == {i \in 1..Len(file) : file[i].k = "summarize"}

\* the lines a batch of entries holds
InBatch(es) == {es[j] : j \in 1..Len(es)}

\* C23: a summarize control entry is never mirrored and never buffered: no
\* full-log write (markdown or document), no summarization batch, no
\* published digest and no state of the buffer holds a control entry.
C23_ControlNeverMirrored ==
    /\ InBatch(buffer) \cap Controls = {}
    /\ \A b \in 1..Len(md) :
          md[b].t \in {"log", "summary"} => InBatch(md[b].es) \cap Controls = {}
    /\ \A g \in 1..Len(gdoc) : InBatch(gdoc[g].es) \cap Controls = {}
    /\ \A k \in 1..Len(sums) : InBatch(sums[k].es) \cap Controls = {}

\* a control entry was delivered while an entry was buffered, and an entry
\* delivered after it has been mirrored to both sinks and is buffered
C23_Witness ==
    /\ \E k \in 1..Len(sums) : sums[k].trig = "control"
    /\ buffer # <<>>
    /\ \E g \in 1..Len(gdoc) :
          gdoc[g].op = "entries" /\ Last(buffer) \in InBatch(gdoc[g].es)
    /\ MdLogCount(Last(buffer)) = 1
    /\ \E i \in Controls : i < Last(buffer) /\ i \in InBatch(delivered)

(***************************************************************************)
(* Sessions side by side.  Each start_session call runs in a process of    *)
(* its own and constructs one engine; the engine's worker is the only      *)
(* writer of the session, to the summary file and the document that        *)
(* start_session and GoogleDocsLogger name after the workspace.            *)
(***************************************************************************)
Running == {s \in Sessions : sessions[s].state = "running"}

Writes ==
    LET RECURSIVE Sum(_)
        Sum(ds) == IF ds = {} THEN 0
                   ELSE LET d == CHOOSE x \in ds : TRUE
                        IN  Len(dests[d]) + Sum(ds \ {d})
    IN  Sum(Destinations)

\* a write of session s: who wrote, and which sessions were running
WriteBy(s, live) == [by |-> s, live |-> live]

\* start_session(workspace = w): the engine is constructed on the summary
\* file of the workspace, whose title the constructor writes when the file
\* does not exist (core.py 61-63), and the worker is started
StartIn(s, w) ==
    /\ sessions[s].state = "idle"
    /\ sessions' = [sessions EXCEPT ![s] = [ws |-> w, state |-> "running"]]
    /\ dests' = IF dests[SummaryFileOf(w)] = <<>> /\ Writes < MaxWrites
                THEN [dests EXCEPT ![SummaryFileOf(w)] =
                        Append(@, WriteBy(s, Running \cup {s}))]
                ELSE dests
    /\ UNCHANGED <<engineVars, docVars>>

\* the worker of session s appends to a destination of its session: the
\* summary file (core.py 173-179, 228-231) or the document (184, 239)
WorkerWrites(s, d) ==
    /\ sessions[s].state = "running"
    /\ d \in {SummaryFileOf(sessions[s].ws), DocumentOf(sessions[s].ws)}
    /\ Writes < MaxWrites
    /\ dests' = [dests EXCEPT ![d] = Append(@, WriteBy(s, Running))]
    /\ UNCHANGED <<sessions, engineVars, docVars>>

\* the shell of session s exits and start_session stops the engine
EndSession(s) ==
    /\ sessions[s].state = "running"
    /\ sessions' = [sessions EXCEPT ![s].state = "ended"]
    /\ UNCHANGED <<dests, engineVars, docVars>>

InitWorkspaces ==
    /\ EngineInit({c \in Confs({2}, {-1}) : c.mode = "markdown" /\ c.gdoc})
    /\ DocInit({EmptyDoc})
    /\ WorkspaceInit

NextWorkspaces ==
    \/ \E s \in Sessions, w \in Workspaces : StartIn(s, w)
    \/ \E s \in Sessions, d \in Destinations : WorkerWrites(s, d)
    \/ \E s \in Sessions : EndSession(s)

SpecWorkspaces == InitWorkspaces /\ [][NextWorkspaces]_vars

\* C24: no two concurrently running sessions write to the same
\* destination: when two sessions have written to one destination, the
\* later writer was not running when the earlier one wrote.
C24_SessionsWriteApart ==
    \A d \in Destinations : \A i, j \in 1..Len(dests[d]) :
        (i < j /\ dests[d][i].by # dests[d][j].by)
            => dests[d][j].by \notin dests[d][i].live

(***************************************************************************)
(* Ownership of the engine's state.  The constructor starts the one worker *)
(* (core.py 97-99); `buffer` and `last_batch_time` are locals of _run,     *)
(* self.last_pos and self._full_log_heading_written are assigned in _run   *)
(* and in _log_entries_to_full_log, which only _run calls; stop() assigns  *)
(* self._running and nothing else.                                         *)
(***************************************************************************)
\* a step of the worker: one iteration of its loop
WorkerStep == thread = "alive" /\ running /\ tick_at' = now

\* the state the worker works on
WorkerState == <<last_pos, buffer, last_batch_time, hdr, md, gdoc>>

\* C25: one worker per engine, never a second one; the tail offset, the
\* buffer and the full-log-heading flag change in steps of the worker only,
\* and a step of another thread of the engine writes the stop flag alone.
C25_WorkerOwnsItsState ==
    [][ /\ WorkerState' # WorkerState => WorkerStep
        /\ running' # running =>
              /\ ~running'
              /\ UNCHANGED <<conf, file, present, thread, now, WorkerState>>
        /\ thread # "alive" => thread' = thread ]_vars

\* stop() was called while the worker, having read, mirrored and buffered
\* an entry, is still alive
C25_Witness ==
    /\ ~running
    /\ thread = "alive"
    /\ buffer # <<>>
    /\ last_pos > 0
    /\ hdr

(***************************************************************************)
(* The session log under write_jsonl_entry and the engine.                 *)
(***************************************************************************)
InitProducer ==
    /\ EngineInit({c \in Confs({2}, {-1}) : c.mode = "markdown" /\ c.gdoc})
    /\ DocInit({EmptyDoc})
    /\ WorkspaceInit

NextProducer ==
    \/ WriteJsonlEntry(Commands, 1..LineLen, MaxLines)
    \/ ContinueLine
    \/ Tick({NoFailure}, MaxTime)

SpecProducer == InitProducer /\ [][NextProducer]_vars

\* the log after a step holds the log before it: every earlier line is
\* unchanged and the last line has kept the bytes it had
Extends(f, g) ==
    /\ Len(f) <= Len(g)
    /\ \A i \in 1..Len(f) :
          IF i < Len(f) THEN g[i] = f[i]
          ELSE /\ g[i].k = f[i].k
               /\ g[i].command = f[i].command
               /\ g[i].entry = f[i].entry
               /\ g[i].b >= f[i].b

\* C26: the session log is append-only.  A step that changes the file is
\* either the start of a write_jsonl_entry call, which adds one line behind
\* a complete last line, or the rest of that line arriving; every earlier
\* byte stays.  The line is a note entry when the command starts with "#"
\* and a command entry otherwise, and no step of the engine changes the file.
C26_LogIsAppendOnly ==
    /\ [](\A i \in 1..Len(file) :
            /\ file[i].k = file[i].entry.type
            /\ file[i].entry.type \in {"note", "command"}
            /\ file[i].entry.type = "note"
                  <=> (file[i].command # <<>> /\ Head(file[i].command) = "#"))
    /\ [][ /\ Extends(file, file')
           /\ Len(file') <= Len(file) + 1
           /\ Len(file') = Len(file) + 1 => LastComplete(file)
           /\ WorkerStep => file' = file ]_vars

\* a note and a command have been written whole, and the engine has read
\* from the log
C26_Witness ==
    /\ LastComplete(file)
    /\ \E i, j \in 1..Len(file) :
          i < j /\ file[i].k = "note" /\ file[j].k = "command"
    /\ delivered # <<>>

(***************************************************************************)
(* The time trigger and its two guards.                                    *)
(***************************************************************************)
\* markdown sessions with and without a size trigger, with the time trigger
\* disabled (interval -1 and 0) and enabled (interval 2), with and without
\* document sink; no call fails
InitTrigger ==
    /\ EngineInit({c \in Confs({0, 2}, {-1, 0, 2}) : c.mode = "markdown"})
    /\ DocInit({EmptyDoc})
    /\ WorkspaceInit

NextTrigger ==
    \/ AppendLine(JsonKinds, {LineLen}, MaxLines)
    \/ Tick({NoFailure}, MaxTime)
    \/ TimePasses

SpecTrigger == InitTrigger /\ [][NextTrigger]_vars

\* C27: a time trigger fires only when interval > 0 and the buffer is not
\* empty.  Every call made on the time trigger belongs to a session with
\* interval > 0 and covers at least one entry; with interval <= 0 every
\* call is made by the size trigger or by a control entry; and the trigger
\* clock is reset only by a step that made a call on a non-empty batch, so
\* no trigger fires on an empty buffer.
C27_TimeTriggerGuards ==
    /\ [](\A k \in 1..Len(sums) :
            /\ sums[k].trig = "time" => conf.interval > 0 /\ sums[k].es # <<>>
            /\ conf.interval <= 0 => sums[k].trig \in {"size", "control"})
    /\ [][last_batch_time' # last_batch_time => Len(sums') > Len(sums)]_vars

\* a session without time trigger and without size trigger whose worker
\* has gone round with an entry in the buffer and has made no call
C27_Witness ==
    /\ conf.interval <= 0
    /\ conf.batch_size = 0
    /\ buffer # <<>>
    /\ tick_at >= 2
    /\ Len(delivered) >= 2
    /\ sums = <<>>

(***************************************************************************)
(* The log that does not exist yet.                                        *)
(***************************************************************************)
\* C28: while the log does not exist, an iteration of the worker reads
\* nothing and raises nothing: the offset stays 0, the buffer and the sinks
\* are as they were and the worker stays alive; once the producer has
\* created the log, its lines are delivered from the first one on.
C28_AbsentLogIsNoError ==
    /\ [](~present =>
            /\ last_pos = 0
            /\ buffer = <<>>
            /\ delivered = <<>>
            /\ thread # "crashed")
    /\ [](delivered = [i \in 1..Len(delivered) |-> i])
    /\ [][(~present /\ WorkerStep) =>
            /\ UNCHANGED <<last_pos, buffer, hdr, md, gdoc, delivered, sums>>
            /\ thread' = "alive" ]_vars

\* the worker has gone round twice and the log does not exist yet
C28_Witness ==
    /\ ~present
    /\ tick_at >= 1
    /\ thread = "alive"
    /\ last_pos = 0

(***************************************************************************)
(* The deterministic digest (mode "markdown", core.py 196-211).  An entry  *)
(* is given by the fields the digest reads; "absent" stands for a field    *)
(* the entry does not have.  In this part the buffer holds the entries     *)
(* themselves.                                                             *)
(***************************************************************************)
\* a note, a note without text, a command, an entry of unknown type without
\* command, an entry without type
EntryShapes ==
    { [type |-> "note", text |-> "t", command |-> "absent"],
      [type |-> "note", text |-> "absent", command |-> "absent"],
      [type |-> "command", text |-> "absent", command |-> "c"],
      [type |-> "unknown", text |-> "absent", command |-> "absent"],
      [type |-> "absent", text |-> "absent", command |-> "d"] }

\* _to_markdown(entries), lines 243-280: a note is rendered with e['text'],
\* which raises KeyError when the entry has no text; every other field is
\* read with a default
ToMarkdown(es) ==
    IF \E j \in 1..Len(es) : es[j].type = "note" /\ es[j].text = "absent"
    THEN "raise" ELSE "md"

\* e.get("command", "")
CommandOf(e) == IF e.command = "absent" THEN "" ELSE e.command

\* q[-n:]
LastN(q, n) == IF Len(q) <= n THEN q ELSE SubSeq(q, Len(q) - n + 1, Len(q))

\* lines 198-211: the digest of the batch, or the exception of line 198
MarkdownSummary(es) ==
    IF ToMarkdown(es) = "raise" THEN [raised |-> TRUE]
    ELSE
      LET cmd_entries == SelectSeq(es, LAMBDA e : e.type # "note")
      IN  [raised |-> FALSE,
           total |-> Len(es),
           notes |-> Len(SelectSeq(es, LAMBDA e : e.type = "note")),
           commands |-> Len(cmd_entries),
           recent |-> LastN([j \in 1..Len(cmd_entries) |->
                               CommandOf(cmd_entries[j])], 5)]

\* buffer.append(entry), line 142
BufferEntry(shapes, maxLen) ==
    /\ thread = "alive"
    /\ sums = <<>>
    /\ Len(buffer) < maxLen
    /\ \E e \in shapes : buffer' = Append(buffer, e)
    /\ UNCHANGED <<conf, file, present, last_pos, last_batch_time, now,
                   running, thread, hdr, md, gdoc, delivered, sums, maxRead,
                   buffered_at, tick_at, docVars, wsVars>>

\* _summarize_batch(buffer) in mode "markdown" on a non-empty batch; the
\* exception of _to_markdown leaves _summarize_batch and _run
SummarizeMarkdown ==
    /\ thread = "alive"
    /\ sums = <<>>
    /\ buffer # <<>>
    /\ \E d \in {MarkdownSummary(buffer)} :
          /\ sums' = <<[es |-> buffer, digest |-> d]>>
          /\ thread' = IF d.raised THEN "crashed" ELSE "alive"
          /\ md' = IF d.raised THEN md
                   ELSE Append(md, [t |-> "summary", es |-> buffer,
                                    digest |-> d])
    /\ UNCHANGED <<conf, file, present, last_pos, buffer, last_batch_time,
                   now, running, hdr, gdoc, delivered, maxRead,
                   buffered_at, tick_at, docVars, wsVars>>

InitDigest ==
    /\ EngineInit({c \in Confs({0}, {-1}) : c.mode = "markdown" /\ ~c.gdoc})
    /\ DocInit({EmptyDoc})
    /\ WorkspaceInit

NextDigest ==
    \/ BufferEntry(EntryShapes, DigestLen)
    \/ SummarizeMarkdown

SpecDigest == InitDigest /\ [][NextDigest]_vars

\* how many entries of the batch are notes
RECURSIVE NotesIn(_)
NotesIn(es) ==
    IF es = <<>> THEN 0
    ELSE (IF Head(es).type = "note" THEN 1 ELSE 0) + NotesIn(Tail(es))

\* the command texts of the entries of the batch that are not notes
RECURSIVE CommandsIn(_)
CommandsIn(es) ==
    IF es = <<>> THEN <<>>
    ELSE (IF Head(es).type = "note" THEN <<>> ELSE <<CommandOf(Head(es))>>)
         \o CommandsIn(Tail(es))

\* C29: in markdown mode the digest of every non-empty batch is produced
\* without failing, whatever the entries: it reports total = number of
\* entries, notes = number of note entries, commands = total - notes, and
\* the command text of the last min(5, commands) entries that are not
\* notes, in batch order.
C29_MarkdownDigestNeverFails ==
    \A k \in 1..Len(sums) :
        LET es == sums[k].es
            d == sums[k].digest
        IN  /\ ~d.raised
            /\ d.total = Len(es)
            /\ d.notes = NotesIn(es)
            /\ d.commands = d.total - d.notes
            /\ Len(d.recent) = IF d.commands < 5 THEN d.commands ELSE 5
            /\ d.recent = SubSeq(CommandsIn(es),
                                 d.commands - Len(d.recent) + 1, d.commands)

(***************************************************************************)
(* The order of mirroring and publishing in one sink.                      *)
(***************************************************************************)
\* what the markdown file received, in order: full-log blocks and digests
MdHistory == SelectSeq(md, LAMBDA x : x.t \in {"log", "summary"})

\* what the document sink received, in order
GdocHistory ==
    [g \in 1..Len(gdoc) |->
        [t |-> IF gdoc[g].op = "entries" THEN "log" ELSE "summary",
         es |-> gdoc[g].es]]

\* the position in history h of the k-th digest
SummaryAt(h, k) ==
    CHOOSE b \in 1..Len(h) :
        /\ h[b].t = "summary"
        /\ Cardinality({a \in 1..b : h[a].t = "summary"}) = k

\* entry i was written to the full log before position b of h
LoggedBefore(h, b, i) ==
    \E a \in 1..(b - 1) : h[a].t = "log" /\ i \in InBatch(h[a].es)

\* entry i is in the first full-log write after position b of h
LoggedNextAfter(h, b, i) ==
    \E a \in (b + 1)..Len(h) :
        /\ h[a].t = "log"
        /\ i \in InBatch(h[a].es)
        /\ \A c \in (b + 1)..(a - 1) : h[c].t # "log"

\* the histories of the sinks the session has
SinkHistories == {MdHistory} \cup (IF conf.gdoc THEN {GdocHistory} ELSE {})

\* C30: mirroring precedes summarization: when a digest is published to a
\* sink, every entry it covers has already been written to the full log of
\* that sink, whatever the trigger.
C30_MirroredBeforeDigest ==
    \A h \in SinkHistories : \A k \in 1..Len(sums) :
        \A i \in InBatch(sums[k].es) : LoggedBefore(h, SummaryAt(h, k), i)

\* C30, amended: for the size and the time trigger every entry the digest
\* covers has been written to the full log of the sink before the digest;
\* for a control entry, an entry not yet written is one read in the same
\* poll as the control entry, and it is written to the full log by the
\* next full-log write, in the same iteration.
C30_MirroredBeforeDigestOrSamePoll ==
    \A h \in SinkHistories : \A k \in 1..Len(sums) :
        \A i \in InBatch(sums[k].es) :
            \/ LoggedBefore(h, SummaryAt(h, k), i)
            \/ /\ sums[k].trig = "control"
               /\ LoggedNextAfter(h, SummaryAt(h, k), i)

\* in a session with both sinks a control entry has flushed two entries:
\* one mirrored by an earlier iteration, one read in the same poll as the
\* control entry and not yet mirrored when the digest was published
C30_Witness ==
    /\ conf.gdoc
    /\ \E k \in 1..Len(sums) : \E i, j \in InBatch(sums[k].es) :
          /\ sums[k].trig = "control"
          /\ LoggedBefore(GdocHistory, SummaryAt(GdocHistory, k), i)
          /\ LoggedBefore(MdHistory, SummaryAt(MdHistory, k), i)
          /\ ~LoggedBefore(GdocHistory, SummaryAt(GdocHistory, k), j)
          /\ ~LoggedBefore(MdHistory, SummaryAt(MdHistory, k), j)

(***************************************************************************)
(* The end of a session (session_manager.py 245-251): the shell exits,     *)
(* then start_session calls stop(); the producer writes only while the     *)
(* shell runs.                                                             *)
(***************************************************************************)
\* the shell hook appends a line while the shell is running
ShellAppends ==
    /\ running
    /\ AppendLine(JsonKinds, {LineLen}, MaxLines)

InitSessionEnd ==
    /\ EngineInit({c \in Confs({0, 2}, {-1}) : c.mode = "markdown"})
    /\ DocInit({EmptyDoc})
    /\ WorkspaceInit

NextSessionEnd ==
    \/ ShellAppends
    \/ Tick({NoFailure}, MaxTime)
    \/ Stop
    \/ Exit

SpecSessionEnd == InitSessionEnd /\ [][NextSessionEnd]_vars

\* C31: logs are flushed at session end: when the shell has exited, stop()
\* has returned and the worker has ended, every entry of the session log
\* has been mirrored to the markdown full log.
C31_FlushedAtSessionEnd ==
    thread = "exited" =>
        \A i \in 1..Len(file) : file[i].k = "command" => MdLogCount(i) >= 1

(***************************************************************************)
(* The postcondition of the initialization of the document.                *)
(***************************************************************************)
\* C32: whenever the constructor has run _init_doc_structure and it has
\* returned without raising, also with a failed styling request, the
\* structural check _has_expected_sections holds on the document.
C32_InitEstablishesSections ==
    (/\ lastOp.op = "construct"
     /\ ~lastOp.raised
     /\ lastOp.val \in {"initialized", "initialized blind"})
        => HasExpectedSections(doc)

(***************************************************************************)
(* The request a delegate sends to its provider.  Text is kept as the      *)
(* sequence of its parts.                                                  *)
(***************************************************************************)
\* two notes and two commands that differ in their text
TextShapes ==
    { [type |-> "note", text |-> "t", command |-> "absent",
       output |-> "absent", timestamp |-> "ts"],
      [type |-> "note", text |-> "u", command |-> "absent",
       output |-> "absent", timestamp |-> "ts"],
      [type |-> "command", text |-> "absent", command |-> "c",
       output |-> "o", timestamp |-> "ts"],
      [type |-> "command", text |-> "absent", command |-> "d",
       output |-> "o", timestamp |-> "ts"] }

\* core.py 215-219: the pre-rendered text of the batch, the entries' texts
\* joined by blank lines
RenderText(es) ==
    [j \in 1..Len(es) |->
        IF es[j].type = "note" THEN <<"# Note: ", es[j].text>>
        ELSE <<"Command: ", es[j].command, "Output: ", es[j].output>>]

\* e.get(field, default)
GetField(e, field, default) ==
    IF field \in DOMAIN e /\ e[field] # "absent" THEN e[field] ELSE default

\* GenericChatSummarizer.summarize_text -> _build_prompt_messages(text),
\* generic_llm.py 170-179: the user message is the template filled with text
GenericPrompt(text) ==
    [system |-> "SYSTEM_PROMPT", user |-> <<"USER_PROMPT_TEMPLATE", text>>]

\* HuggingFaceSummarizer._build_prompt(entries), hf_llm.py 32-53: one line
\* per entry made of its timestamp, command and output
HfBuildPrompt(entries) ==
    [header |-> "The following are terminal session entries.",
     lines |-> [j \in 1..Len(entries) |->
                  <<GetField(entries[j], "timestamp", "unknown time"),
                    GetField(entries[j], "command", ""),
                    GetField(entries[j], "output", "")>>]]

\* _hf_fn(text), session_manager.py 122-124: the text is wrapped in one
\* note entry and handed to hf.summarize
HfFn(text) == HfBuildPrompt(<<[type |-> "note", text |-> text]>>)

\* the request llm_function(text) sends, by the provider of the session
PromptOf(provider, text) ==
    IF provider = "huggingface" THEN HfFn(text) ELSE GenericPrompt(text)

\* buffer.append(entry), line 142, for a batch a delegate will be given
BufferText(shapes, maxLen, maxCalls) ==
    /\ Len(sums) < maxCalls
    /\ Len(buffer) < maxLen
    /\ \E e \in shapes : buffer' = Append(buffer, e)
    /\ UNCHANGED <<conf, file, present, last_pos, last_batch_time, now,
                   running, thread, hdr, md, gdoc, delivered, sums, maxRead,
                   buffered_at, tick_at, docVars, wsVars>>

\* _summarize_batch(buffer) in mode "custom", lines 212-220, and the
\* buffer.clear() that follows it
SummarizeDelegate(maxCalls) ==
    /\ Len(sums) < maxCalls
    /\ buffer # <<>>
    /\ sums' = Append(sums, [es |-> buffer, text |-> RenderText(buffer),
                             prompt |-> PromptOf(conf.provider,
                                                 RenderText(buffer))])
    /\ buffer' = <<>>
    /\ UNCHANGED <<conf, file, present, last_pos, last_batch_time, now,
                   running, thread, hdr, md, gdoc, delivered, maxRead,
                   buffered_at, tick_at, docVars, wsVars>>

InitPrompt ==
    /\ EngineInit({[batch_size |-> 0, interval |-> -1, mode |-> "custom",
                    llm |-> TRUE, gdoc |-> FALSE, provider |-> p] :
                      p \in ProviderModes})
    /\ DocInit({EmptyDoc})
    /\ WorkspaceInit

NextPrompt ==
    \/ BufferText(TextShapes, PromptLen, PromptCalls)
    \/ SummarizeDelegate(PromptCalls)

SpecPrompt == InitPrompt /\ [][NextPrompt]_vars

\* C33: in every delegate mode the request sent to the provider carries the
\* pre-rendered text of the batch: two batches whose texts differ give
\* different requests.
C33_PromptCarriesBatchText ==
    \A k, l \in 1..Len(sums) :
        sums[k].text # sums[l].text => sums[k].prompt # sums[l].prompt

(***************************************************************************)
(* The configuration start_session reads before it constructs the engine   *)
(* (session_manager.py 70-99, config.py 28-118).                           *)
(***************************************************************************)
\* the attributes class Config defines
ConfigAttributes ==
    {"BASE_DIR", "WORKSPACE_DIR", "GOOGLE_TOKEN_PATH", "OPENAI_API_URL",
     "GITHUB_MODELS_API_URL", "HUGGINGFACE_API_URL_TEMPLATE",
     "DEFAULT_OPENAI_MODEL", "DEFAULT_GITHUB_MODEL", "DEFAULT_HF_MODEL",
     "DEFAULT_API_TIMEOUT", "MAX_ENTRIES_HF", "MAX_ENTRIES_GENERIC",
     "DEFAULT_TEMPERATURE", "DEFAULT_MAX_TOKENS", "USER_SHELL_RC"}

\* the arguments of start_session: those of StartSession, and whether
\* batch_size and interval are given
LaunchInputs ==
    [summarize : BOOLEAN, summarize_mode : ProviderModes \cup {"markdown"},
     credential : BOOLEAN, construct : {TRUE}, test : BOOLEAN,
     batch_size_given : BOOLEAN, interval_given : BOOLEAN]

\* the attributes of Config start_session reads, in the order of lines 71,
\* 82, 97 and 99
ConfigReads(a) ==
    <<"WORKSPACE_DIR", "DEBUG_LOG_TO_CONSOLE">>
    \o (IF a.batch_size_given THEN <<>> ELSE <<"SUMMARIZE_BATCH_SIZE">>)
    \o (IF a.interval_given THEN <<>> ELSE <<"SUMMARIZE_INTERVAL">>)

\* reading an attribute the class does not define raises AttributeError
ReadsRaise(a) ==
    \E j \in 1..Len(ConfigReads(a)) : ConfigReads(a)[j] \notin ConfigAttributes

\* start_session up to the start of the worker, lines 70-220
Launch ==
    /\ thread = "none"
    /\ \E r \in {StartSession(conf.start)} :
          IF ReadsRaise(conf.start) \/ r.raised
          THEN thread' = "failed" /\ conf' = conf
          ELSE /\ thread' = "alive"
               /\ conf' = [conf EXCEPT !.mode = r.mode, !.llm = r.llm]
    /\ UNCHANGED <<file, present, last_pos, buffer, last_batch_time, now,
                   running, hdr, md, gdoc, delivered, sums, maxRead,
                   buffered_at, tick_at, docVars, wsVars>>

\* before start_session is called
InitLaunch ==
    /\ \E a \in LaunchInputs :
          conf = [batch_size |-> 2, interval |-> -1, mode |-> "none",
                  llm |-> FALSE, gdoc |-> FALSE, start |-> a]
    /\ thread = "none"
    /\ file = <<>>
    /\ present = FALSE
    /\ last_pos = 0
    /\ buffer = <<>>
    /\ last_batch_time = 0
    /\ now = 0
    /\ running = TRUE
    /\ hdr = FALSE
    /\ md = <<[t |-> "title"]>>
    /\ gdoc = <<>>
    /\ delivered = <<>>
    /\ sums = <<>>
    /\ maxRead = 0
    /\ buffered_at = 0
    /\ tick_at = -1
    /\ DocInit({EmptyDoc})
    /\ WorkspaceInit

NextLaunch == Launch

SpecLaunch == InitLaunch /\ [][NextLaunch]_vars

\* C34: start_session called without batch_size and interval reads only
\* attributes Config defines and goes on to start the worker.
C34_StartReadsDefinedConfig ==
    (~conf.start.batch_size_given /\ ~conf.start.interval_given)
        => thread # "failed"

\* the entries (non-control lines) of the log, in log order
LogEntries ==
    SelectSeq([i \in 1..Len(file) |-> i], LAMBDA i : file[i].k # "summarize")

\* C35: the summarization passes partition a prefix of the log: no entry is
\* passed to two passes or twice to one, the k-th pass covers the run of
\* entries that follows the runs of the passes before it, in log order, and
\* the passes together cover a prefix of the log's entries.
C35_PassesPartitionPrefix ==
    /\ \A k \in 1..Len(sums), l \in 1..Len(sums) :
          \A i \in 1..Len(sums[k].es), j \in 1..Len(sums[l].es) :
             sums[k].es[i] = sums[l].es[j] => k = l /\ i = j
    /\ CoveredBefore(Len(sums) + 1) <= Len(LogEntries)
    /\ \A k \in 1..Len(sums) :
          /\ sums[k].es # <<>>
          /\ sums[k].es = SubSeq(LogEntries, CoveredBefore(k) + 1,
                                 CoveredBefore(k + 1))

C35_Witness ==
    /\ Len(file) = 3
    /\ file[2].k = "summarize"
    /\ Len(sums) = 2
    /\ sums[1].es = <<1>> /\ sums[1].trig = "control"
    /\ sums[2].es = <<3>> /\ sums[2].trig = "time"

\* C37: at the end of every iteration of the worker's loop, when it goes to
\* sleep, a session with batch_size > 0 holds fewer than batch_size entries
\* in its buffer (a worker an exception has killed reaches no such point).
C37_BufferBelowBatchSize ==
    (conf.batch_size > 0 /\ thread # "crashed")
        => Len(buffer) < conf.batch_size

C37_Witness ==
    /\ conf.batch_size = 2
    /\ thread = "alive"
    /\ tick_at >= 0
    /\ Len(sums) = 1
    /\ sums[1].trig = "size"
    /\ Len(sums[1].es) = 2
    /\ buffer = <<3>>

(***************************************************************************)
(* The worker left to run: no stop(), every external call returns, and the *)
(* loop is scheduled again after every sleep (weak fairness of the tick).  *)
(* The clock advances by the sleep of each iteration, up to LiveTime.      *)
(***************************************************************************)
InitLive ==
    /\ EngineInit({c \in Confs({0, 2}, {-1, 2}) : c.mode = "markdown" /\ ~c.gdoc})
    /\ DocInit({EmptyDoc})
    /\ WorkspaceInit

NextLive ==
    \/ AppendLine(JsonKinds, {LineLen}, LiveLines)
    \/ Tick({NoFailure}, LiveTime)

SpecLive == InitLive /\ [][NextLive]_vars /\ WF_vars(Tick({NoFailure}, LiveTime))

\* entry i has been passed to a summarization pass
Passed(i) ==
    \E k \in 1..Len(sums) : \E j \in 1..Len(sums[k].es) : sums[k].es[j] = i

Buffered(i) == \E j \in 1..Len(buffer) : buffer[j] = i

\* C36: with interval > 0 every entry in the buffer is eventually passed to
\* a summarization pass (as long as the interval ends within the time the
\* model follows); with interval <= 0 and batch_size > 0 a pass is made only
\* by a control line or by a buffer that has reached batch_size, so that an
\* entry that completes no batch stays in the buffer while nothing is read.
C36_BufferedEventuallyPassed ==
    /\ \A i \in 1..LiveLines :
          (conf.interval > 0 /\ Buffered(i)
           /\ last_batch_time + conf.interval < LiveTime) ~> Passed(i)
    /\ [][(conf.interval <= 0 /\ sums' # sums)
             => /\ Len(sums') = Len(sums) + 1
                /\ \/ Last(sums').trig = "control"
                   \/ /\ Last(sums').trig = "size"
                      /\ conf.batch_size > 0
                      /\ Len(Last(sums').es) >= conf.batch_size]_vars
    /\ [][(conf.interval <= 0 /\ delivered' = delivered)
             => buffer' = buffer /\ sums' = sums]_vars

C36_Witness ==
    /\ conf.interval = 2
    /\ conf.batch_size = 0
    /\ Len(sums) = 2
    /\ sums[1].trig = "time" /\ sums[1].es = <<1>>
    /\ sums[2].trig = "time" /\ sums[2].es = <<2>>
    /\ sums[2].at = 4
    /\ buffer = <<>>

(***************************************************************************)
(* The summary file under several engines.  start_session constructs the   *)
(* engine of every session of a workspace on {workspace}_summary.md        *)
(* (session_manager.py 207-220).  Here a session is [ws, state,            *)
(* full_log_heading_written], the last being the engine's flag, and a      *)
(* summary file is the sequence of the blocks written to it, each with its *)
(* writer; the empty sequence is a file that does not exist.  The test of  *)
(* line 61 and the write of lines 62-63 are taken as one step.             *)
(***************************************************************************)
Block(t, s) == [t |-> t, by |-> s]

SummaryFiles == {SummaryFileOf(w) : w \in Workspaces}

HasFullLog(content) == \E b \in 1..Len(content) : content[b].t = "fullhdr"

\* blocks the workers have appended to the summary files
WorkerBlocks ==
    LET RECURSIVE Sum(_)
        Sum(ds) == IF ds = {} THEN 0
                   ELSE LET d == CHOOSE x \in ds : TRUE
                        IN  Len(SelectSeq(dests[d], LAMBDA b : b.t # "title"))
                               + Sum(ds \ {d})
    IN  Sum(SummaryFiles)

\* a constructor that opens the summary file with mode "w" whether or not
\* the file exists
OpenSummaryFileTruncating(content, s) == <<Block("title", s)>>

\* __init__, lines 60-63: the title is written only to a file that does not
\* exist; an existing file is read and left as it is
OpenSummaryFile(content, s) ==
    IF content = <<>> THEN <<Block("title", s)>> ELSE content

\* __init__, lines 55 and 64-69: the flag is set when the content read holds
\* "## Full Log"
HeadingFlag(content) == content # <<>> /\ HasFullLog(content)

\* a session of workspace w starts (again): its engine is constructed
ConstructOn(s, w) ==
    /\ sessions[s].state \in {"idle", "ended"}
    /\ dests' = [dests EXCEPT ![SummaryFileOf(w)] = OpenSummaryFile(@, s)]
    /\ sessions' = [sessions EXCEPT ![s] =
                      [ws |-> w, state |-> "running",
                       full_log_heading_written |->
                          HeadingFlag(dests[SummaryFileOf(w)])]]
    /\ UNCHANGED <<engineVars, docVars>>

\* _log_entries_to_full_log of the engine of session s, lines 171-179
MirrorTo(s) ==
    /\ sessions[s].state = "running"
    /\ WorkerBlocks < MaxWrites
    /\ dests' = [dests EXCEPT ![SummaryFileOf(sessions[s].ws)] =
                   @ \o (IF sessions[s].full_log_heading_written THEN <<>>
                         ELSE <<Block("fullhdr", s)>>)
                     \o <<Block("log", s)>>]
    /\ sessions' = [sessions EXCEPT ![s].full_log_heading_written = TRUE]
    /\ UNCHANGED <<engineVars, docVars>>

\* _summarize_batch of the engine of session s, lines 227-234
SummaryTo(s) ==
    /\ sessions[s].state = "running"
    /\ WorkerBlocks < MaxWrites
    /\ dests' = [dests EXCEPT ![SummaryFileOf(sessions[s].ws)] =
                   Append(@, Block("summary", s))]
    /\ UNCHANGED <<sessions, engineVars, docVars>>

\* stop(): the engine of session s is done
StopEngine(s) ==
    /\ sessions[s].state = "running"
    /\ sessions' = [sessions EXCEPT ![s].state = "ended"]
    /\ UNCHANGED <<dests, engineVars, docVars>>

InitSummaryFile ==
    /\ EngineInit({c \in Confs({2}, {-1}) : c.mode = "markdown" /\ ~c.gdoc})
    /\ DocInit({EmptyDoc})
    /\ sessions = [s \in Sessions |->
                     [ws |-> "none", state |-> "idle",
                      full_log_heading_written |-> FALSE]]
    /\ dests = [d \in Destinations |-> <<>>]

NextSummaryFile ==
    \/ \E s \in Sessions, w \in Workspaces : ConstructOn(s, w)
    \/ \E s \in Sessions : MirrorTo(s)
    \/ \E s \in Sessions : SummaryTo(s)
    \/ \E s \in Sessions : StopEngine(s)

SpecSummaryFile == InitSummaryFile /\ [][NextSummaryFile]_vars

BlocksOf(content, t) == {b \in 1..Len(content) : content[b].t = t}

\* C39: whatever sessions have shared a summary file, one after the other
\* or side by side, the file holds the "## Full Log" heading at most once,
\* exactly once if an entry was ever mirrored to it, and the heading stands
\* before every mirrored entry.
C39_OneFullLogHeading ==
    \A d \in SummaryFiles :
        /\ Cardinality(BlocksOf(dests[d], "fullhdr")) <= 1
        /\ BlocksOf(dests[d], "log") # {}
              => /\ Cardinality(BlocksOf(dests[d], "fullhdr")) = 1
                 /\ \A h \in BlocksOf(dests[d], "fullhdr"),
                       l \in BlocksOf(dests[d], "log") : h < l

====
